---- MODULE Spec2Model ----
(***************************************************************************)
(* Model of the Google Docs -> HTML exporter (behdad/gdocs-me-up).         *)
(*                                                                         *)
(* Spec       the export pass of exportDocToHTML over doc.body.content,    *)
(*            with the list engine of the main script (detectListChange,   *)
(*            handleListState, closeAllLists) and renderInlineObject.      *)
(* SpecLib    the list functions of lib/lists.js (inferNestingLevel,       *)
(*            isNumberedList, detectListChange, handleListState,           *)
(*            closeAllLists) as called on one list stack.                  *)
(* SpecPure   the functions without state (alignment, tag, mergeTextRuns,  *)
(*            ptToPx, the glyph functions of lib/lists.js, the level of a  *)
(*            table-of-contents entry), each called on inputs drawn from   *)
(*            bounded sets.                                                *)
(* SpecStyle  deepCopy and deepMerge on style objects held in a heap, as   *)
(*            called directly and by renderParagraph and renderTextRun.    *)
(***************************************************************************)
EXTENDS Integers, Sequences, FiniteSets, TLC

VARIABLES
    doc,               \* doc.body.content: the sequence of body elements
    listItemCounts,    \* doc.___listItemCounts, written by the pre-pass
    annot,             \* paragraph.___prevNestingLevel / ___prevListId fields
    pc,                \* position of exportDocToHTML
    i,                 \* index of the next body element of the main loop
    listStack,         \* listStack
    prevNestingLevel,  \* prevNestingLevel
    prevListId,        \* prevListId
    htmlLines,         \* htmlLines (the lines pushed by the body loop)
    listChange,        \* listChange returned for the last paragraph
    heap,              \* the style objects: a sequence of cells, a reference is an index
    refs,              \* the variables that hold a reference to a style object
    input,             \* the arguments as they were given: the style objects,
                       \* or the paragraph and flags of the last call of lib/lists.js,
                       \* or the arguments of the last call of a function
    result             \* what the last call of a function returned

vars == <<doc, listItemCounts, annot, pc, i, listStack, prevNestingLevel,
          prevListId, htmlLines, listChange, heap, refs, input, result>>
exportVars == <<doc, listItemCounts, annot, i, listStack, prevNestingLevel,
                prevListId, htmlLines, listChange>>
styleVars == <<heap, refs, input>>

(***************************************************************************)
(* Bounds                                                                  *)
(***************************************************************************)
MaxLen == 3

(***************************************************************************)
(* JavaScript values                                                       *)
(***************************************************************************)
\* A JavaScript string is written code unit by code unit: printable ASCII and
\* the tab, line feed, carriage return and form feed as themselves, the
\* backslash doubled, and every other UTF-16 code unit as a backslash, the
\* letter u and its four lower-case hexadecimal digits (the symbols of
\* BULLET_STYLE_MAP are U+25CF, U+25CB and U+25A0).
\* undefined, for an integer-valued field (bullet.nestingLevel)
Undefined == -2
\* null, for a string-valued field (prevListId)
Null == "null"
\* x ?? d
Coalesce(x, d) == IF x = Undefined THEN d ELSE x
\* x || d, for a number or undefined
OrElse(x, d) == IF x = Undefined \/ x = 0 THEN d ELSE x

(***************************************************************************)
(* The document: doc.lists                                                 *)
(***************************************************************************)
\* a glyph of listProperties.nestingLevels; "" stands for an absent field
Glyph(symbol, type) == [glyphSymbol |-> symbol, glyphType |-> type]
NoField == ""

\* doc.lists: list id -> listProperties.nestingLevels (index 1 is level 0)
Lists ==
    [ b |-> <<Glyph("\\u25cf", "GLYPH_TYPE_UNSPECIFIED"), Glyph("\\u25cb", "GLYPH_TYPE_UNSPECIFIED"),
              Glyph("\\u25a0", "GLYPH_TYPE_UNSPECIFIED")>>,
      n |-> <<Glyph(NoField, "DECIMAL"), Glyph(NoField, "ALPHA"), Glyph(NoField, "ROMAN")>>,
      u |-> <<Glyph(NoField, "GLYPH_TYPE_UNSPECIFIED"), Glyph(NoField, "GLYPH_TYPE_UNSPECIFIED"),
              Glyph(NoField, "GLYPH_TYPE_UNSPECIFIED")>>,
      s |-> <<Glyph("\\u25cf", "GLYPH_TYPE_UNSPECIFIED")>>,
      k |-> <<Glyph("constructor", "GLYPH_TYPE_UNSPECIFIED")>> ]

\* the list ids of doc.lists; the id "x" is used by paragraphs and is not in doc.lists
ListIds == DOMAIN Lists

(***************************************************************************)
(* The document: body elements                                             *)
(***************************************************************************)
\* a body element; bullet = FALSE is a paragraph without bullet metadata
Element(kind, bullet, listId, level, direction, named, text, img) ==
    [kind |-> kind, bullet |-> bullet, listId |-> listId, nestingLevel |-> level,
     direction |-> direction, namedStyleType |-> named, text |-> text, img |-> img]

Para(named, text) == Element("paragraph", FALSE, "", Undefined, "", named, text, "none")
Item(listId, level, text) ==
    Element("paragraph", TRUE, listId, level, "LEFT_TO_RIGHT", "NORMAL_TEXT", text, "none")
ItemRTL(listId, level, text) ==
    Element("paragraph", TRUE, listId, level, "RIGHT_TO_LEFT", "NORMAL_TEXT", text, "none")
ImgPara(img) == Element("paragraph", FALSE, "", Undefined, "", "NORMAL_TEXT", "t", img)
Other(kind) == Element(kind, FALSE, "", Undefined, "", "", "", "none")
\* a table with the paragraphs of its cells
Table(cells) == Other("table") @@ [cells |-> cells]
\* a table of contents with the paragraphs of its entries
TableOfContents(content) == Other("tableOfContents") @@ [content |-> content]
\* a section break with sectionStyle: columnSeparatorStyle and the number of columnProperties
SectionBreak(columnSeparatorStyle, columns) ==
    Other("sectionBreak") @@ [columnSeparatorStyle |-> columnSeparatorStyle, columns |-> columns]

(***************************************************************************)
(* Strings of the list engine                                              *)
(***************************************************************************)
\* String.prototype.toLowerCase on the list type names
ToLowerCase ==
    [ UL |-> "ul", OL |-> "ol", UL_RTL |-> "ul_rtl", OL_RTL |-> "ol_rtl" ]
\* String.prototype.toUpperCase on the list type names
ToUpperCase ==
    [ ul |-> "UL", ol |-> "OL", ul_rtl |-> "UL_RTL", ol_rtl |-> "OL_RTL" ]

\* an entry `${type}:${level}` of listStack
Frame(type, level) == [type |-> type, level |-> level]
\* top.split(':')[0]
FrameType(frame) == frame.type
\* listType.startsWith('u')
StartsWithU(type) == type \in {"ul", "ul_rtl"}

\* the actions of a listChange string: `start${typeInfo}:${level}`, `endLIST`, `end${typeInfo}`
StartAction(typeInfo, level) == [verb |-> "start", typeInfo |-> typeInfo, level |-> level]
EndListAction == [verb |-> "endLIST", typeInfo |-> "", level |-> Undefined]
EndAction(typeInfo) == [verb |-> "end", typeInfo |-> typeInfo, level |-> Undefined]

\* a line of htmlLines; a rendered paragraph is one line <tag>text img</tag>
Line(tag) == [tag |-> tag, text |-> "", img |-> ""]
UlOpen == Line("<ul>")
UlOpenRtl == Line("<ul dir=\"rtl\">")
OlOpen == Line("<ol>")
OlOpenRtl == Line("<ol dir=\"rtl\">")
UlClose == Line("</ul>")
OlClose == Line("</ol>")
LiOpen == Line("<li>")
LiClose == Line("</li>")

(***************************************************************************)
(* Lists: detectListChange                                                 *)
(***************************************************************************)
NUMBERED_GLYPH_TYPES ==
    {"DECIMAL", "ALPHA", "ROMAN", "UPPER_ALPHA", "UPPER_ROMAN", "LOWER_ALPHA", "LOWER_ROMAN"}

\* doc.lists?.[listId]?.listProperties?.nestingLevels is present
HasListDef(listId) == listId \in ListIds
\* nestingLevels[nestingLevel] is present
HasGlyph(listId, nestingLevel) ==
    HasListDef(listId) /\ nestingLevel + 1 \in DOMAIN Lists[listId]
\* nestingLevels[nestingLevel]; every read of it is glyph?.field, so an absent
\* glyph reads as a glyph without fields
GlyphAt(listId, nestingLevel) ==
    IF HasGlyph(listId, nestingLevel) THEN Lists[listId][nestingLevel + 1]
    ELSE Glyph(NoField, NoField)

\* the key `${listId}:${level}` of listItemCounts
CountKey(listId, level) == <<listId, level>>
\* doc.___listItemCounts?.[key] || 1
ItemCount(counts, key) == IF key \in DOMAIN counts THEN OrElse(counts[key], 1) ELSE 1

\* a variant whose item-count heuristic calls every unspecified glyph numbered
IsNumbered_AnyCount(glyph, listId, nestingLevel, counts) ==
    LET isBullet == glyph.glyphSymbol # NoField
        explicitlyNumbered == glyph.glyphType \in NUMBERED_GLYPH_TYPES
    IN  IF isBullet THEN FALSE
        ELSE IF explicitlyNumbered THEN TRUE
        ELSE IF glyph.glyphType = "GLYPH_TYPE_UNSPECIFIED"
             THEN ItemCount(counts, CountKey(listId, nestingLevel)) >= 1
        ELSE FALSE

\* isNumbered of detectListChange
IsNumbered(glyph, listId, nestingLevel, counts) ==
    LET isBullet == glyph.glyphSymbol # NoField
        explicitlyNumbered == glyph.glyphType \in NUMBERED_GLYPH_TYPES
    IN  IF isBullet THEN FALSE
        ELSE IF explicitlyNumbered THEN TRUE
        ELSE IF glyph.glyphType = "GLYPH_TYPE_UNSPECIFIED"
             THEN ItemCount(counts, CountKey(listId, nestingLevel)) = 1
        ELSE FALSE

\* for(let i = prevLevel; i > nestingLevel; i--) actions.push(`endLIST`)
AscentActions(prevLevel, nestingLevel) ==
    [k \in 1..(prevLevel - nestingLevel) |-> EndListAction]

\* parentType !== wantType || (prevListId && prevListId !== listId)
NeedsSwitch(openType, wantType, prevId, listId) ==
    openType # wantType \/ (prevId # Null /\ prevId # listId)

\* the listChange of a bullet paragraph: a sequence of actions, <<>> for null
detectListChange(bullet, counts, stack, isRTL, prevLevel, prevId) ==
    LET listId == bullet.listId
        nestingLevel == OrElse(bullet.nestingLevel, 0)
        glyph == GlyphAt(listId, nestingLevel)
        isNumbered == IsNumbered(glyph, listId, nestingLevel, counts)
        startType == IF isNumbered THEN "OL" ELSE "UL"
        rtlFlag == IF isRTL THEN "_RTL" ELSE ""
        wantType == ToLowerCase[startType] \o (IF isRTL THEN "_rtl" ELSE "")
        start == StartAction(startType \o rtlFlag, nestingLevel)
        ends == AscentActions(prevLevel, nestingLevel)
        stackIndexAfterClosing == Len(stack) - (prevLevel - nestingLevel)
        \* listStack[stackIndexAfterClosing - 1]?.split(':')[0]; "" for undefined
        parentType == IF stackIndexAfterClosing \in DOMAIN stack
                      THEN FrameType(stack[stackIndexAfterClosing]) ELSE ""
        currentType == FrameType(stack[Len(stack)])
        EndOf(type) == EndAction(IF type = "" THEN "UL" ELSE ToUpperCase[type])
    IN  IF ~HasListDef(listId) THEN <<>>
        ELSE IF Len(stack) = 0 THEN <<start>>
        ELSE IF nestingLevel > prevLevel THEN <<start>>
        ELSE IF nestingLevel < prevLevel THEN
            IF stackIndexAfterClosing > 0 /\ NeedsSwitch(parentType, wantType, prevId, listId)
            THEN ends \o <<EndOf(parentType), start>>
            ELSE ends
        ELSE IF NeedsSwitch(currentType, wantType, prevId, listId)
             THEN <<EndOf(currentType), start>>
        ELSE <<>>

(***************************************************************************)
(* Lists: handleListState, closeAllLists                                   *)
(***************************************************************************)
\* the closing tag of a popped frame
CloseTag(top) == IF StartsWithU(FrameType(top)) THEN UlClose ELSE OlClose

\* a variant of endLIST that leaves the parent <li> open
EndListLines_ListOnly(top) == <<CloseTag(top)>>

\* the lines of endLIST: the nested list is closed, then the parent <li>
EndListLines(top) == <<CloseTag(top), LiClose>>

\* one action applied to st = [stack, html]
ApplyAction(st, action) ==
    IF action.verb = "start" THEN
        \* typeInfo.includes('UL_RTL') / 'OL_RTL' / 'UL' / else
        IF action.typeInfo = "UL_RTL"
        THEN [stack |-> Append(st.stack, Frame("ul_rtl", action.level)),
              html |-> Append(st.html, UlOpenRtl)]
        ELSE IF action.typeInfo = "OL_RTL"
        THEN [stack |-> Append(st.stack, Frame("ol_rtl", action.level)),
              html |-> Append(st.html, OlOpenRtl)]
        ELSE IF action.typeInfo = "UL"
        THEN [stack |-> Append(st.stack, Frame("ul", action.level)),
              html |-> Append(st.html, UlOpen)]
        ELSE [stack |-> Append(st.stack, Frame("ol", action.level)),
              html |-> Append(st.html, OlOpen)]
    ELSE IF action.verb = "endLIST" THEN
        IF st.stack = <<>> THEN st
        ELSE [stack |-> SubSeq(st.stack, 1, Len(st.stack) - 1),
              html |-> st.html \o EndListLines(st.stack[Len(st.stack)])]
    ELSE
        IF st.stack = <<>> THEN st
        ELSE [stack |-> SubSeq(st.stack, 1, Len(st.stack) - 1),
              html |-> Append(st.html, CloseTag(st.stack[Len(st.stack)]))]

RECURSIVE ApplyActions(_, _)
ApplyActions(st, actions) ==
    IF actions = <<>> THEN st
    ELSE ApplyActions(ApplyAction(st, Head(actions)), Tail(actions))

\* handleListState(listChange, listStack, htmlLines): the new [stack, html]
handleListState(change, stack, html) ==
    ApplyActions([stack |-> stack, html |-> html], change)

\* a variant that closes the innermost list only
closeAllLists_TopOnly(stack, html) ==
    IF Len(stack) = 0 THEN [stack |-> stack, html |-> html]
    ELSE [stack |-> SubSeq(stack, 1, Len(stack) - 1),
          html |-> Append(html, CloseTag(stack[Len(stack)]))]

\* closeAllLists(listStack, htmlLines): the new [stack, html]
RECURSIVE closeAllLists(_, _)
closeAllLists(stack, html) ==
    IF Len(stack) = 0 THEN [stack |-> stack, html |-> html]
    ELSE closeAllLists(SubSeq(stack, 1, Len(stack) - 1),
                       Append(html, CloseTag(stack[Len(stack)])))

(***************************************************************************)
(* Paragraphs: renderParagraph, renderInlineObject                         *)
(***************************************************************************)
\* named.startsWith(prefix)
StartsWith(str, prefix) ==
    Len(str) >= Len(prefix) /\ SubSeq(str, 1, Len(prefix)) = prefix

\* the white space that parseInt skips (WhiteSpace and LineTerminator of
\* ECMAScript): the characters written as themselves and the escaped ones
WhiteSpace == {" ", "\t", "\n", "\r", "\f"}
WhiteSpaceEscapes ==
    {"\\u000b", "\\u00a0", "\\u1680", "\\u2000", "\\u2001", "\\u2002", "\\u2003", "\\u2004",
     "\\u2005", "\\u2006", "\\u2007", "\\u2008", "\\u2009", "\\u200a", "\\u2028", "\\u2029",
     "\\u202f", "\\u205f", "\\u3000", "\\ufeff"}
\* the length of an escaped code unit
EscapeLen == Len("\\u0000")
DecimalDigits == {"0", "1", "2", "3", "4", "5", "6", "7", "8", "9"}
DigitValue(c) ==
    CASE c = "0" -> 0 [] c = "1" -> 1 [] c = "2" -> 2 [] c = "3" -> 3 [] c = "4" -> 4
      [] c = "5" -> 5 [] c = "6" -> 6 [] c = "7" -> 7 [] c = "8" -> 8 [] c = "9" -> 9

\* str without its leading white space
RECURSIVE TrimStart(_)
TrimStart(str) ==
    IF Len(str) > 0 /\ SubSeq(str, 1, 1) \in WhiteSpace
    THEN TrimStart(SubSeq(str, 2, Len(str)))
    ELSE IF Len(str) >= EscapeLen /\ SubSeq(str, 1, EscapeLen) \in WhiteSpaceEscapes
    THEN TrimStart(SubSeq(str, EscapeLen + 1, Len(str)))
    ELSE str

\* the number of leading decimal digits of str
RECURSIVE DigitCount(_)
DigitCount(str) ==
    IF Len(str) > 0 /\ SubSeq(str, 1, 1) \in DecimalDigits
    THEN 1 + DigitCount(SubSeq(str, 2, Len(str)))
    ELSE 0

\* the value of the decimal digits str
RECURSIVE DigitsValue(_)
DigitsValue(str) ==
    IF Len(str) = 0 THEN 0
    ELSE 10 * DigitsValue(SubSeq(str, 1, Len(str) - 1)) + DigitValue(SubSeq(str, Len(str), Len(str)))

\* parseInt(str, 10): white space is skipped, a sign is read, then the
\* longest run of digits; whatever follows is ignored; NaN without a digit
ParseInt(str) ==
    LET trimmed == TrimStart(str)
        signed == Len(trimmed) > 0 /\ SubSeq(trimmed, 1, 1) \in {"+", "-"}
        negative == signed /\ SubSeq(trimmed, 1, 1) = "-"
        body == IF signed THEN SubSeq(trimmed, 2, Len(trimmed)) ELSE trimmed
        n == DigitCount(body)
        magnitude == DigitsValue(SubSeq(body, 1, n))
    IN  IF n = 0 THEN [isNaN |-> TRUE, value |-> 0]
        ELSE [isNaN |-> FALSE, value |-> IF negative THEN 0 - magnitude ELSE magnitude]

\* lines 548-550: the n of h<n> for a type that starts with 'HEADING_' and
\* whose remainder parses to 1..6, 0 for every other type
HeadingLevel(namedType) ==
    IF StartsWith(namedType, "HEADING_")
    THEN LET lv == ParseInt(SubSeq(namedType, Len("HEADING_") + 1, Len(namedType)))
         IN  IF ~lv.isNaN /\ lv.value >= 1 /\ lv.value <= 6 THEN lv.value ELSE 0
    ELSE 0

\* the tag of renderParagraph
ParagraphTag(styleNamedType) ==
    LET namedType == IF styleNamedType = "" THEN "NORMAL_TEXT" ELSE styleNamedType
    IN  IF namedType = "TITLE" THEN "h1 class=\"title\""
        ELSE IF namedType = "SUBTITLE" THEN "h2 class=\"subtitle\""
        ELSE IF HeadingLevel(namedType) >= 1 THEN "h" \o ToString(HeadingLevel(namedType))
        ELSE "p"

\* the imagesDir that exportDocToHTML passes on; renderTableOfContents passes null
ImagesDir == "images"

\* renderInlineObject of the main script for the inline image of a paragraph:
\* the markup, or "throw" when the returned promise rejects
renderInlineObject(img, imagesDir) ==
    CASE img = "noObject" -> ""
      [] img = "noImageProperties" -> ""
      \* a request without a url rejects, like a failed fetch
      [] img = "noContentUri" -> "throw"
      [] img = "fetchFails" -> "throw"
      \* path.join(imagesDir, fileName) throws for null
      [] OTHER -> IF imagesDir = Null THEN "throw" ELSE "<img>"

\* renderParagraph rejects when one of the inline objects does
RenderThrows(p, imagesDir) ==
    p.img # "none" /\ renderInlineObject(p.img, imagesDir) = "throw"

\* a body or cell paragraph rejects when one of its inline objects does
ParagraphThrows(p) == RenderThrows(p, ImagesDir)

\* paragraphHtml of renderParagraph
ParagraphHtml(p) ==
    [tag |-> ParagraphTag(p.namedStyleType), text |-> p.text,
     img |-> IF p.img = "none" THEN "" ELSE renderInlineObject(p.img, ImagesDir)]

\* listChange of renderParagraph
ParagraphListChange(p, counts, stack, prevLevel, prevId) ==
    LET isRTL == p.direction = "RIGHT_TO_LEFT"
    IN  IF p.bullet
        THEN detectListChange(p, counts, stack, isRTL, Coalesce(prevLevel, -1), prevId)
        ELSE [k \in 1..Len(stack) |-> EndListAction]

(***************************************************************************)
(* exportDocToHTML                                                         *)
(***************************************************************************)
\* the pre-pass loop over bodyContent
RECURSIVE CountListItems(_, _)
CountListItems(content, counts) ==
    IF content = <<>> THEN counts
    ELSE LET element == Head(content)
             key == CountKey(element.listId, Coalesce(element.nestingLevel, 0))
             old == IF key \in DOMAIN counts THEN counts[key] ELSE 0
         IN  IF element.kind = "paragraph" /\ element.bullet
             THEN CountListItems(Tail(content),
                      [k \in DOMAIN counts \cup {key} |-> IF k = key THEN old + 1 ELSE counts[k]])
             ELSE CountListItems(Tail(content), counts)

NoCounts == [k \in {} |-> 0]
NoAnnot == [set |-> FALSE, prevNestingLevel |-> Undefined, prevListId |-> Null]

\* lines 129-147: the pre-pass and the declarations of the list state
PrePass ==
    /\ pc = "prepass"
    /\ listItemCounts' = CountListItems(doc, NoCounts)
    /\ listStack' = <<>>
    /\ prevNestingLevel' = -1
    /\ prevListId' = Null
    /\ pc' = "loop"
    /\ UNCHANGED <<doc, annot, i, htmlLines, listChange>>
    /\ UNCHANGED <<styleVars, result>>

AtElement(kind) == pc = "loop" /\ i <= Len(doc) /\ doc[i].kind = kind
\* the pass waits for the promise of the named render function for doc[i]
Awaiting(call) == pc = call

\* the variables that only the paragraph branch assigns
ListContext == <<annot, prevNestingLevel, prevListId, listChange>>

\* lines 149-166, 224-228: closeAllLists, then the element's markup
CloseAndPush(kind, line) ==
    /\ AtElement(kind)
    /\ LET r == closeAllLists(listStack, htmlLines)
       IN  /\ listStack' = r.stack
           /\ htmlLines' = Append(r.html, line)
    /\ i' = i + 1
    /\ UNCHANGED <<doc, listItemCounts, pc, ListContext>>
    /\ UNCHANGED <<styleVars, result>>

\* sectionStyle.columnSeparatorStyle and sectionStyle.columnProperties.length
\* of a section break, absent without sectionStyle
ColumnSeparatorStyle(element) ==
    IF "columnSeparatorStyle" \in DOMAIN element THEN element.columnSeparatorStyle ELSE NoField
ColumnCount(element) == IF "columns" \in DOMAIN element THEN element.columns ELSE 0

\* lines 155-164: the markup of a section break
SectionBreakLine(element) ==
    IF ColumnSeparatorStyle(element) = "BETWEEN_EACH_COLUMN"
    THEN Line("<div class=\"column-break\"></div>")
    ELSE IF ColumnCount(element) > 1
    THEN Line("<div class=\"multi-column\" style=\"column-count:"
              \o ToString(ColumnCount(element)) \o ";\">")
    ELSE Line("<div class=\"section-break\"></div>")

\* lines 149-166
ProcessSectionBreak ==
    /\ AtElement("sectionBreak")
    /\ CloseAndPush("sectionBreak", SectionBreakLine(doc[i]))

\* lines 224-228
ProcessHorizontalRule == CloseAndPush("horizontalRule", Line("<hr>"))

\* lines 167-168, 229-230: closeAllLists, then the await of call
CloseAndAwait(kind, call) ==
    /\ AtElement(kind)
    /\ LET r == closeAllLists(listStack, htmlLines)
       IN  /\ listStack' = r.stack
           /\ htmlLines' = r.html
    /\ pc' = call
    /\ UNCHANGED <<doc, listItemCounts, i, ListContext>>
    /\ UNCHANGED <<styleVars, result>>

\* the promise of call is settled: rejected, or resolved to the line that is pushed
Resume(call, throws, line) ==
    /\ Awaiting(call)
    /\ IF throws
       THEN /\ pc' = "failed"
            /\ UNCHANGED <<htmlLines, i>>
       ELSE /\ htmlLines' = Append(htmlLines, line)
            /\ i' = i + 1
            /\ pc' = "loop"
    /\ UNCHANGED <<doc, listItemCounts, listStack, ListContext>>
    /\ UNCHANGED <<styleVars, result>>

\* toc.content: the paragraphs of the entries, none without content
TocContent(element) == IF "content" \in DOMAIN element THEN element.content ELSE <<>>

\* lines 461-470: the entry paragraphs are rendered with imagesDir null
TocThrows(element) ==
    \E k \in DOMAIN TocContent(element) : RenderThrows(TocContent(element)[k], Null)

\* renderTableOfContents: the markup with the html of the entry paragraphs
renderTableOfContents(element) ==
    [tag |-> "<div class=\"doc-toc\">", text |-> "", img |-> "",
     entries |-> [k \in DOMAIN TocContent(element) |-> ParagraphHtml(TocContent(element)[k])]]

\* lines 167-169, up to the await of renderTableOfContents
ProcessTableOfContents == CloseAndAwait("tableOfContents", "renderTableOfContents")

\* lines 169-178, from the await on
ResumeTableOfContents ==
    /\ Awaiting("renderTableOfContents")
    /\ Resume("renderTableOfContents", TocThrows(doc[i]), renderTableOfContents(doc[i]))

\* the paragraphs of the cells of a table, in the order renderTable visits them
TableCells(element) == IF "cells" \in DOMAIN element THEN element.cells ELSE <<>>

\* lines 1100-1113: renderParagraph of a cell paragraph with the list stack [];
\* the paragraph has no ___prevNestingLevel and no ___prevListId
CellParagraph(c, counts) ==
    [html |-> ParagraphHtml(c),
     listChange |-> ParagraphListChange(c, counts, <<>>, Undefined, Null)]

\* a cell paragraph rejects when one of its inline objects does
TableThrows(element) ==
    \E k \in DOMAIN TableCells(element) : ParagraphThrows(TableCells(element)[k])

\* renderTable: the markup of the table with the html of its cell paragraphs;
\* the listChange of a cell paragraph is not used
renderTable(element, counts) ==
    [tag |-> "<table>", text |-> "", img |-> "",
     cells |-> [k \in DOMAIN TableCells(element) |->
                   CellParagraph(TableCells(element)[k], counts).html]]

\* a variant that leaves the open lists open
ProcessTable_KeepLists ==
    /\ AtElement("table")
    /\ pc' = "renderTable"
    /\ UNCHANGED <<doc, listItemCounts, i, listStack, htmlLines, ListContext>>
    /\ UNCHANGED <<styleVars, result>>

\* lines 229-231, up to the await of renderTable
ProcessTable == CloseAndAwait("table", "renderTable")

\* lines 231-241, from the await on
ResumeTable ==
    /\ Awaiting("renderTable")
    /\ Resume("renderTable", TableThrows(doc[i]), renderTable(doc[i], listItemCounts))

\* lines 187-194: the previous <li> stays open when the paragraph nests deeper
ClosePreviousItem(html, stack, prevLevel, nestingLevel) ==
    IF prevLevel >= 0 /\ prevLevel < nestingLevel THEN html
    ELSE IF prevLevel >= 0 /\ Len(stack) > 0 THEN Append(html, LiClose)
    ELSE html

\* line 181
NestingLevelOf(p) == IF p.bullet THEN Coalesce(p.nestingLevel, 0) ELSE -1

\* lines 180-196, up to the await of renderParagraph
ProcessParagraph ==
    /\ AtElement("paragraph")
    /\ annot' = [annot EXCEPT ![i] = [set |-> TRUE,
                                      prevNestingLevel |-> prevNestingLevel,
                                      prevListId |-> prevListId]]
    /\ htmlLines' = ClosePreviousItem(htmlLines, listStack, prevNestingLevel,
                                      NestingLevelOf(doc[i]))
    /\ pc' = "renderParagraph"
    /\ UNCHANGED <<doc, listItemCounts, i, listStack, prevNestingLevel, prevListId, listChange>>
    /\ UNCHANGED <<styleVars, result>>

\* lines 196-222, from the await on; renderParagraph reads the fields that
\* line 184-185 wrote
ResumeParagraph ==
    /\ Awaiting("renderParagraph")
    /\ LET p == doc[i]
           nestingLevel == NestingLevelOf(p)
           change == ParagraphListChange(p, listItemCounts, listStack,
                                         annot[i].prevNestingLevel, annot[i].prevListId)
           r == IF change # <<>> THEN handleListState(change, listStack, htmlLines)
                ELSE [stack |-> listStack, html |-> htmlLines]
       IN  IF ParagraphThrows(p)
           THEN /\ pc' = "failed"
                /\ UNCHANGED <<i, listStack, htmlLines, prevNestingLevel, prevListId, listChange>>
           ELSE /\ listChange' = change
                /\ listStack' = r.stack
                /\ IF Len(r.stack) > 0
                   THEN /\ htmlLines' = r.html \o <<LiOpen, ParagraphHtml(p)>>
                        /\ prevNestingLevel' = nestingLevel
                        /\ prevListId' = IF p.bullet /\ p.listId # "" THEN p.listId ELSE Null
                   ELSE /\ htmlLines' = (IF prevNestingLevel >= 0
                                         THEN Append(r.html, LiClose) ELSE r.html)
                                        \o <<ParagraphHtml(p)>>
                        /\ prevNestingLevel' = -1
                        /\ prevListId' = Null
                /\ i' = i + 1
                /\ pc' = "loop"
    /\ UNCHANGED <<doc, listItemCounts, annot>>
    /\ UNCHANGED <<styleVars, result>>

\* lines 245-249
Finish ==
    /\ pc = "loop"
    /\ i > Len(doc)
    /\ LET html1 == IF prevNestingLevel >= 0 THEN Append(htmlLines, LiClose) ELSE htmlLines
           r == closeAllLists(listStack, html1)
       IN  /\ listStack' = r.stack
           /\ htmlLines' = r.html
    /\ pc' = "done"
    /\ UNCHANGED <<doc, listItemCounts, annot, i, prevNestingLevel, prevListId, listChange>>
    /\ UNCHANGED <<styleVars, result>>

\* the style variables while the export pass is modelled without styles
NoRefs == [k \in {} |-> 0]
NoInput == [k \in {} |-> 0]
NoResult == [k \in {} |-> 0]

(***************************************************************************)
(* Documents                                                               *)
(***************************************************************************)
\* the body elements the bounded documents are made of
Elems ==
    { Para("NORMAL_TEXT", "t"),
      Other("table"), Other("tableOfContents"), Other("horizontalRule"), Other("sectionBreak"),
      SectionBreak("BETWEEN_EACH_COLUMN", 0), SectionBreak(NoField, 2),
      TableOfContents(<<Para("NORMAL_TEXT", "c")>>), TableOfContents(<<ImgPara("ok")>>),
      Item("b", 0, "t"), Item("b", 1, "t"), Item("b", 2, "t"),
      Item("n", 0, "t"), Item("n", 1, "t"),
      Item("u", 0, "t"), Item("u", 1, "t"),
      Item("x", 0, "t"), Item("x", 1, "t"), Item("s", 1, "t"),
      ItemRTL("b", 0, "t"), Item("b", Undefined, "t"),
      ImgPara("ok"), ImgPara("noObject"), ImgPara("fetchFails"),
      Table(<<Item("b", 1, "c"), Para("NORMAL_TEXT", "c")>>) }

\* all documents of at most n elements
DocsUpTo(n) == UNION { [1..k -> Elems] : k \in 0..n }

\* the end-to-end scenario of the specification
ScenarioDoc ==
    << Para("HEADING_1", "Title"), Para("NORMAL_TEXT", "intro"),
       Item("b", 0, "A"), Item("b", 1, "A1"), Item("b", 0, "B") >>

\* three nested lists closed by a table, then an item and a paragraph
NestedThenTableDoc ==
    << Item("b", 0, "A"), Item("b", 1, "A1"), Item("b", 2, "A2"), Other("table"),
       Item("b", 0, "B"), Para("NORMAL_TEXT", "end") >>
Docs == DocsUpTo(MaxLen) \cup {ScenarioDoc, NestedThenTableDoc}

Init ==
    /\ doc \in Docs
    /\ listItemCounts = NoCounts
    /\ annot = [k \in DOMAIN doc |-> NoAnnot]
    /\ pc = "prepass"
    /\ i = 1
    /\ listStack = <<>>
    /\ prevNestingLevel = -1
    /\ prevListId = Null
    /\ htmlLines = <<>>
    /\ listChange = <<>>
    /\ heap = <<>>
    /\ refs = NoRefs
    /\ input = NoInput
    /\ result = NoResult

Next ==
    \/ PrePass
    \/ ProcessSectionBreak
    \/ ProcessTableOfContents
    \/ ResumeTableOfContents
    \/ ProcessParagraph
    \/ ResumeParagraph
    \/ ProcessHorizontalRule
    \/ ProcessTable
    \/ ResumeTable
    \/ Finish

Spec == Init /\ [][Next]_vars

(***************************************************************************)
(* Properties of the export pass                                           *)
(***************************************************************************)
\* the element kind a line opens or closes, "" for any other line
OpensKind(line) ==
    IF line \in {UlOpen, UlOpenRtl} THEN "ul"
    ELSE IF line \in {OlOpen, OlOpenRtl} THEN "ol"
    ELSE IF line = LiOpen THEN "li" ELSE ""
ClosesKind(line) ==
    IF line = UlClose THEN "ul"
    ELSE IF line = OlClose THEN "ol"
    ELSE IF line = LiClose THEN "li" ELSE ""

\* lines is balanced and properly nested, given the kinds still open
RECURSIVE BalancedFrom(_, _)
BalancedFrom(lines, open) ==
    IF lines = <<>> THEN open = <<>>
    ELSE LET line == Head(lines)
         IN  IF OpensKind(line) # ""
             THEN BalancedFrom(Tail(lines), Append(open, OpensKind(line)))
             ELSE IF ClosesKind(line) # ""
             THEN /\ open # <<>>
                  /\ open[Len(open)] = ClosesKind(line)
                  /\ BalancedFrom(Tail(lines), SubSeq(open, 1, Len(open) - 1))
             ELSE BalancedFrom(Tail(lines), open)

Balanced(lines) == BalancedFrom(lines, <<>>)

\* C1: when the pass has finished, the <ul>/<ol>/<li> open and close tags of
\* the output are balanced and properly nested, and none is left open.
C1_BalancedTags == pc = "done" => Balanced(htmlLines)

\* C2: the list stack is empty before the first body element is processed
\* and after the pass has finished.
C2_StackEmptyAtEnds ==
    /\ (pc = "loop" /\ i = 1) => listStack = <<>>
    /\ pc = "done" => listStack = <<>>

\* the pass finished by closing at least two nested lists
C2_Witness ==
    /\ pc = "done"
    /\ Len(htmlLines) >= 2
    /\ htmlLines[Len(htmlLines)] \in {UlClose, OlClose}
    /\ htmlLines[Len(htmlLines) - 1] \in {UlClose, OlClose}

\* C3: the nesting levels of the list stack frames are strictly increasing
\* from the bottom of the stack to the top.
C3_StrictlyIncreasing ==
    \A k \in 1..(Len(listStack) - 1) : listStack[k].level < listStack[k + 1].level

\* the output of the end-to-end scenario
ScenarioHtml ==
    << [tag |-> "h1", text |-> "Title", img |-> ""],
       [tag |-> "p", text |-> "intro", img |-> ""],
       UlOpen, LiOpen, [tag |-> "p", text |-> "A", img |-> ""],
       UlOpen, LiOpen, [tag |-> "p", text |-> "A1", img |-> ""],
       LiClose, UlClose, LiClose,
       LiOpen, [tag |-> "p", text |-> "B", img |-> ""],
       LiClose, UlClose >>

\* C4: the scenario document renders as
\* <h1>Title</h1><p>intro</p><ul><li>A<ul><li>A1</li></ul></li><li>B</li></ul>.
C4_Scenario == (doc = ScenarioDoc /\ pc = "done") => htmlLines = ScenarioHtml

C4_Witness == doc = ScenarioDoc /\ pc = "done" /\ Balanced(htmlLines)

\* the number of body paragraphs that reference (listId, level)
Referencing(listId, level) ==
    Cardinality({ j \in DOMAIN doc :
        /\ doc[j].kind = "paragraph" /\ doc[j].bullet
        /\ doc[j].listId = listId /\ Coalesce(doc[j].nestingLevel, 0) = level })

\* the last body element was a list item whose glyph has no symbol and an
\* unspecified type, and a list was opened for it
OpenedUnspecified ==
    /\ pc = "loop" /\ i > 1
    /\ doc[i - 1].kind = "paragraph" /\ doc[i - 1].bullet
    /\ LET level == OrElse(doc[i - 1].nestingLevel, 0)
           glyph == GlyphAt(doc[i - 1].listId, level)
       IN  /\ HasGlyph(doc[i - 1].listId, level)
           /\ glyph.glyphSymbol = NoField
           /\ glyph.glyphType = "GLYPH_TYPE_UNSPECIFIED"
    /\ listChange # <<>>
    /\ listChange[Len(listChange)].verb = "start"

\* C5: a list opened for an item of an unspecified glyph is <ol> when exactly
\* one body paragraph references its (listId, level), <ul> when two or more do.
C5_CountHeuristic ==
    OpenedUnspecified =>
        LET level == OrElse(doc[i - 1].nestingLevel, 0)
            count == Referencing(doc[i - 1].listId, level)
            top == listStack[Len(listStack)]
            opening == htmlLines[Len(htmlLines) - 2]
        IN  /\ top.level = level
            /\ count = 1 => (top.type = "ol" /\ opening = OlOpen)
            /\ count >= 2 => (top.type = "ul" /\ opening = UlOpen)

\* an <ol> of one item at level 0 holds a <ul> of two items at level 1
C5_Witness ==
    /\ OpenedUnspecified
    /\ listStack = <<Frame("ol", 0), Frame("ul", 1)>>
    /\ Referencing("u", 0) = 1
    /\ Referencing("u", 1) = 2

\* the paragraphs of the body, and the rendered paragraph lines of the output
ParagraphIndexes == { j \in DOMAIN doc : doc[j].kind = "paragraph" }
ParagraphLines == { k \in DOMAIN htmlLines : htmlLines[k].text # "" }
BrokenImages == {"noObject", "noImageProperties", "noContentUri", "fetchFails"}

\* C6: an inline image that cannot be fetched (or whose object or content URI
\* is missing) raises no error and leaves no <img>; every paragraph of the
\* document is still rendered.
C6_ImageFailureTolerated ==
    /\ pc # "failed"
    /\ pc = "done" =>
          /\ Cardinality(ParagraphLines) = Cardinality(ParagraphIndexes)
          /\ (\A j \in DOMAIN doc : doc[j].img \in BrokenImages \/ doc[j].img = "none")
                => \A k \in DOMAIN htmlLines : htmlLines[k].img = ""

\* C17: the step at a table closes every open list, innermost first, and
\* pushes nothing else; when renderTable has resolved, the table markup is
\* pushed with the cell paragraphs, with or without bullet, rendered as
\* paragraphs inside it, and the list stack is still empty.
C17_TableListContext ==
    [][/\ AtElement("table") =>
             LET n == Len(listStack)
             IN  /\ listStack' = <<>>
                 /\ htmlLines' = htmlLines \o [k \in 1 .. n |-> CloseTag(listStack[n + 1 - k])]
       /\ (Awaiting("renderTable") /\ pc' = "loop") =>
             LET cells == TableCells(doc[i])
             IN  /\ listStack = <<>>
                 /\ listStack' = <<>>
                 /\ Len(htmlLines') = Len(htmlLines) + 1
                 /\ SubSeq(htmlLines', 1, Len(htmlLines)) = htmlLines
                 /\ htmlLines'[Len(htmlLines')].tag = "<table>"
                 /\ htmlLines'[Len(htmlLines')].cells =
                       [k \in DOMAIN cells |-> ParagraphHtml(cells[k])]]_vars

\* a table with a bullet paragraph in a cell has been rendered while a list was open
C17_Witness ==
    /\ pc = "loop"
    /\ i = 3
    /\ doc[1].bullet
    /\ doc[2].kind = "table"
    /\ \E k \in DOMAIN TableCells(doc[2]) : TableCells(doc[2])[k].bullet
    /\ listStack = <<>>
    /\ Len(htmlLines) = 5
    /\ htmlLines[4] = UlClose
    /\ htmlLines[5].tag = "<table>"

\* the lines of html that are tags of the list structure
ListCloseTags == {UlClose, OlClose}
\* the number of open <li> at the end of html, negative when more are closed
RECURSIVE LiDepth(_)
LiDepth(html) ==
    IF html = <<>> THEN 0
    ELSE LiDepth(SubSeq(html, 1, Len(html) - 1))
         + (IF html[Len(html)] = LiOpen THEN 1 ELSE IF html[Len(html)] = LiClose THEN -1 ELSE 0)

\* renderParagraph for the paragraph at i has resolved and the step after
\* the await is taken
ParagraphRendered == Awaiting("renderParagraph") /\ pc' = "loop"

\* C21: when a paragraph without bullet has been rendered, one endLIST per
\* frame of the list stack is emitted (none when the stack is empty) and the
\* stack is left empty; when there were frames one list closing tag per
\* frame is pushed and then the paragraph's markup, last and with no <li> open.
C21_BreakOutOfLists ==
    [][(ParagraphRendered /\ ~doc[i].bullet) =>
          LET n == Len(listStack)
              added == SubSeq(htmlLines', Len(htmlLines) + 1, Len(htmlLines') - 1)
          IN  /\ listChange' = [k \in 1 .. n |-> EndListAction]
              /\ listStack' = <<>>
              /\ SubSeq(htmlLines', 1, Len(htmlLines)) = htmlLines
              /\ htmlLines'[Len(htmlLines')] = ParagraphHtml(doc[i])
              /\ \A k \in DOMAIN added : added[k] \in ListCloseTags \cup {LiClose}
              /\ Cardinality({k \in DOMAIN added : added[k] \in ListCloseTags}) = n
              /\ n >= 1 => LiDepth(SubSeq(htmlLines', 1, Len(htmlLines') - 1)) <= 0]_vars

\* the opening tags of a list
ListOpenTags == {UlOpen, UlOpenRtl, OlOpen, OlOpenRtl}
\* the paragraph at i, an item of a list that is defined, has been rendered
\* and the step after the await is taken
AtListItem == ParagraphRendered /\ doc[i].bullet /\ HasListDef(doc[i].listId)
\* bullet.nestingLevel, 0 when absent
ItemLevel(p) == IF p.nestingLevel = Undefined THEN 0 ELSE p.nestingLevel

\* the paragraph at i, an item of any list, defined in doc.lists or not, has
\* been rendered and the step after the await is taken
AtAnyListItem == ParagraphRendered /\ doc[i].bullet

\* C22: the step for a list item that is deeper than the previous item, with
\* frames on the stack, emits exactly one start action at the item's level,
\* pushes one frame and pops none, and the opening tag of the nested list
\* directly follows the previous item, whose <li> is still open.
C22_DescendNests ==
    [][(AtAnyListItem /\ Len(listStack) > 0 /\ ItemLevel(doc[i]) > prevNestingLevel) =>
          /\ Len(listChange') = 1
          /\ listChange'[1].verb = "start"
          /\ listChange'[1].level = ItemLevel(doc[i])
          /\ Len(listStack') = Len(listStack) + 1
          /\ SubSeq(listStack', 1, Len(listStack)) = listStack
          /\ listStack'[Len(listStack')].level = ItemLevel(doc[i])
          /\ htmlLines[Len(htmlLines) - 1] = LiOpen
          /\ \E open \in ListOpenTags :
                htmlLines' = htmlLines \o <<open, LiOpen, ParagraphHtml(doc[i])>>]_vars

\* the frame type an item asks for: its list kind in lower case and its RTL flag
WantType(p) ==
    LET level == ItemLevel(p)
        kind == IF IsNumbered(GlyphAt(p.listId, level), p.listId, level, listItemCounts)
                THEN "ol" ELSE "ul"
    IN  kind \o (IF p.direction = "RIGHT_TO_LEFT" THEN "_rtl" ELSE "")

\* the frame does not match the item: another kind or RTL flag, or the
\* previous item belonged to another list
Mismatch(frame, p) ==
    \/ FrameType(frame) # WantType(p)
    \/ prevListId # Null /\ prevListId # p.listId

\* C23: the step for an item of a defined list that is shallower than the
\* previous item emits prevLevel - nestingLevel endLIST actions first, each
\* of them pops one frame and pushes that list's closing tag and </li>, and
\* a pair (end, start at the item's level) follows exactly when the frame
\* then on top does not match the item.
C23_AscendCloses ==
    [][(AtListItem /\ Len(listStack) > 0 /\ ItemLevel(doc[i]) < prevNestingLevel) =>
          LET p == doc[i]
              n == prevNestingLevel - ItemLevel(p)
              left == Len(listStack) - n
              \* the </li> of the previous item is the last line before the step
              base == Len(htmlLines)
          IN  /\ Len(listChange') \in {n, n + 2}
              /\ \A j \in 1 .. n : listChange'[j] = EndListAction
              /\ n <= Len(listStack)
              /\ \A j \in 1 .. n :
                    /\ htmlLines'[base + 2 * j - 1] = CloseTag(listStack[Len(listStack) + 1 - j])
                    /\ htmlLines'[base + 2 * j] = LiClose
              /\ Len(listChange') = n + 2 <=> (left > 0 /\ Mismatch(listStack[left], p))
              /\ Len(listChange') = n + 2 =>
                    /\ listChange'[n + 1].verb = "end"
                    /\ listChange'[n + 2].verb = "start"
                    /\ listChange'[n + 2].level = ItemLevel(p)]_vars

\* the opening tag of a frame type
OpenTagOf(type) ==
    IF type = "ul" THEN UlOpen ELSE IF type = "ul_rtl" THEN UlOpenRtl
    ELSE IF type = "ol" THEN OlOpen ELSE OlOpenRtl

\* the list opening tags and the list closing tags of html after line k
OpensAfter(html, k) == Cardinality({ m \in k + 1 .. Len(html) : html[m] \in ListOpenTags })
ClosesAfter(html, k) == Cardinality({ m \in k + 1 .. Len(html) : html[m] \in ListCloseTags })
\* the lines of the opening tags that are not closed in html
OpenLists(html) ==
    { k \in DOMAIN html :
        /\ html[k] \in ListOpenTags
        /\ \A m \in k .. Len(html) :
              OpensAfter(html, k - 1) - OpensAfter(html, m)
                  > ClosesAfter(html, k - 1) - ClosesAfter(html, m) }
\* the line of the opening tag of the innermost open list
InnermostOpen(html) == CHOOSE k \in OpenLists(html) : \A m \in OpenLists(html) : m <= k
\* the item that opened the innermost open list: the paragraph whose line
\* follows the opening tag and its <li>
Opener(html) ==
    LET r == Cardinality({ m \in 1 .. InnermostOpen(html) + 2 : html[m].text # "" })
    IN  CHOOSE j \in ParagraphIndexes :
            Cardinality({ m \in ParagraphIndexes : m <= j }) = r
\* the list id of the innermost open list: that of the item that opened it
OpenListId == doc[Opener(htmlLines)].listId

\* the open frame differs from the item in kind, RTL flag or list id
Differs(frame, p) ==
    \/ FrameType(frame) # WantType(p)
    \/ OpenListId # p.listId

\* C24: the step for a list item at the level of the previous item, with
\* frames on the stack: when the top frame differs from the item (kind, RTL
\* flag, or the list id of the list it opened) the actions are one end and
\* one start at the item's level, the top frame is replaced by a frame of
\* the wanted type at that level; otherwise there is no action, the stack is
\* unchanged and the item is a new <li> after the previous one, which is closed.
C24_SameLevel ==
    [][(AtAnyListItem /\ Len(listStack) > 0 /\ ItemLevel(doc[i]) = prevNestingLevel) =>
          LET p == doc[i]
              top == listStack[Len(listStack)]
          IN  /\ htmlLines[Len(htmlLines)] = LiClose
              /\ Differs(top, p) =>
                   /\ Len(listChange') = 2
                   /\ listChange'[1].verb = "end"
                   /\ listChange'[2].verb = "start"
                   /\ listChange'[2].level = ItemLevel(p)
                   /\ listStack' = [listStack EXCEPT ![Len(listStack)] =
                                        Frame(WantType(p), ItemLevel(p))]
                   /\ htmlLines' = htmlLines \o <<CloseTag(top), OpenTagOf(WantType(p)),
                                                  LiOpen, ParagraphHtml(p)>>
              /\ ~Differs(top, p) =>
                   /\ listChange' = <<>>
                   /\ listStack' = listStack
                   /\ htmlLines' = htmlLines \o <<LiOpen, ParagraphHtml(p)>>]_vars

\* C26: the step for an item whose list definition and glyph exist leaves
\* frames on the stack and pushes the item as <li> followed by its markup.
C26_ItemInsideList ==
    [][(AtListItem /\ HasGlyph(doc[i].listId, ItemLevel(doc[i]))) =>
          /\ Len(listStack') > 0
          /\ htmlLines'[Len(htmlLines') - 1] = LiOpen
          /\ htmlLines'[Len(htmlLines')] = ParagraphHtml(doc[i])]_vars

\* C27: between elements, when the stack holds frames, the level of the top
\* frame is the level recorded for the previous item.
C27_TopFrameLevel ==
    (pc = "loop" /\ Len(listStack) > 0) =>
        listStack[Len(listStack)].level = prevNestingLevel

\* C28: between elements, when the stack is empty, no previous item is
\* recorded: prevNestingLevel is -1 and prevListId is null.
C28_NoItemOutsideLists ==
    (pc = "loop" /\ listStack = <<>>) =>
        (prevNestingLevel = -1 /\ prevListId = Null)

\* C30: when the pass is over the document carries no field that it did not
\* have before: no list item counts on the document and no previous level or
\* previous list id on any paragraph.
C30_DocumentReadOnly ==
    pc = "done" =>
        /\ listItemCounts = NoCounts
        /\ annot = [k \in DOMAIN doc |-> NoAnnot]

(***************************************************************************)
(* Style objects: values and the heap                                      *)
(***************************************************************************)
MaxHeap == 19

\* the property names of a style object, and the order of for (const k in o)
Keys == {"a", "b"}
KeySeq == <<"a", "b">>
Numbers == {0, 1, 2}

\* the value of a property: absent, a primitive, or a reference to a cell
Absent == [t |-> "absent", n |-> 0]
Num(v) == [t |-> "num", n |-> v]
NullValue == [t |-> "null", n |-> 0]
Ref(addr) == [t |-> "ref", n |-> addr]
Primitives == {Absent, NullValue} \cup {Num(v) : v \in Numbers}

\* a cell of the heap: a plain object, or an array [elem] with its own properties
NoFields == [k \in Keys |-> Absent]
Cell(kind, elem, fields) == [kind |-> kind, elem |-> elem, fields |-> fields]
EmptyObject == Cell("obj", 0, NoFields)

\* !x
Falsy(slot) == slot.t \in {"absent", "null"} \/ (slot.t = "num" /\ slot.n = 0)
\* typeof x === 'object' && x !== null && !Array.isArray(x)
IsPlainObject(h, slot) == slot.t = "ref" /\ h[slot.n].kind = "obj"

\* a value by content: sub holds the properties of an object or an array, a
\* primitive as it is in the cell and an object or an array by content
Value(t, n, sub) == [t |-> t, n |-> n, sub |-> sub]
RECURSIVE Content(_, _)
Content(h, slot) ==
    IF slot.t = "ref"
    THEN Value(h[slot.n].kind, h[slot.n].elem,
               [k \in Keys |-> Content(h, h[slot.n].fields[k])])
    ELSE slot
\* a property value by content
ValueOf(h, slot) ==
    IF slot.t = "ref" THEN Content(h, slot) ELSE Value(slot.t, slot.n, NoFields)
\* the object at addr by content
Snapshot(h, addr) == [k \in Keys |-> ValueOf(h, h[addr].fields[k])]

(***************************************************************************)
(* deepCopy, deepMerge                                                     *)
(***************************************************************************)
\* the text of a property value: an object at every depth, an array without
\* the properties other than its elements
RECURSIVE Json(_, _)
Json(h, slot) ==
    IF slot.t # "ref" THEN slot
    ELSE IF h[slot.n].kind = "arr" THEN Value("arr", h[slot.n].elem, NoFields)
    ELSE Value("obj", 0, [k \in Keys |-> Json(h, h[slot.n].fields[k])])

\* JSON.stringify(obj)
Stringify(h, addr) ==
    [k \in Keys |-> LET slot == h[addr].fields[k]
                    IN  IF slot.t = "ref" THEN Json(h, slot)
                        ELSE Value(slot.t, slot.n, NoFields)]

\* JSON.parse(text): every object and array of the text, at every depth, is a
\* new cell
RECURSIVE ParseKeys(_, _, _, _)
ParseKeys(h, root, text, keys) ==
    IF keys = <<>> THEN h
    ELSE LET k == Head(keys)
             v == text[k]
             h1 == Append(h, Cell(v.t, v.n, NoFields))
             h2 == [h1 EXCEPT ![root].fields[k] = Ref(Len(h1))]
         IN  IF v.t \in {"obj", "arr"}
             THEN ParseKeys(ParseKeys(h2, Len(h1), v.sub, KeySeq), root, text, Tail(keys))
             ELSE ParseKeys([h EXCEPT ![root].fields[k] = [t |-> v.t, n |-> v.n]],
                            root, text, Tail(keys))

Parse(h, text) ==
    LET h1 == Append(h, EmptyObject)
    IN  [heap |-> ParseKeys(h1, Len(h1), text, KeySeq), ref |-> Len(h1)]

\* a variant that returns its argument
deepCopy_Alias(h, addr) == [heap |-> h, ref |-> addr]

\* deepCopy(obj): the new heap and the reference to the copy
deepCopy(h, addr) == Parse(h, Stringify(h, addr))

\* how a call ended: the heap it left, and whether it threw
Outcome(h, threw) == [heap |-> h, threw |-> threw]

RECURSIVE deepMergeKeys(_, _, _, _)
\* the body of the loop of deepMerge for the key k; base is the value the
\* call was given (a reference, a primitive or undefined), overlay is a cell
deepMergeKey(h, base, overlay, k) ==
    LET ov == h[overlay].fields[k]
        h1 == Append(h, EmptyObject)
    IN  IF ov.t = "absent" THEN Outcome(h, FALSE)
        \* base[k] of undefined or null: TypeError
        ELSE IF base.t \in {"absent", "null"} THEN Outcome(h, TRUE)
        \* base is a number: base[k] is undefined and base[k] = ... is dropped,
        \* so that a plain object is merged into undefined
        ELSE IF base.t = "num" THEN
            IF IsPlainObject(h, ov) THEN deepMergeKeys(h, Absent, ov.n, KeySeq)
            ELSE Outcome(h, FALSE)
        ELSE IF IsPlainObject(h, ov) THEN
            \* if (!base[k]) base[k] = {}; deepMerge(base[k], overlay[k])
            IF Falsy(h[base.n].fields[k])
            THEN deepMergeKeys([h1 EXCEPT ![base.n].fields[k] = Ref(Len(h1))],
                               Ref(Len(h1)), ov.n, KeySeq)
            ELSE deepMergeKeys(h, h[base.n].fields[k], ov.n, KeySeq)
        ELSE Outcome([h EXCEPT ![base.n].fields[k] = ov], FALSE)

\* the loop of deepMerge over the keys left; a throw ends it
deepMergeKeys(h, base, overlay, keys) ==
    IF keys = <<>> THEN Outcome(h, FALSE)
    ELSE LET r == deepMergeKey(h, base, overlay, Head(keys))
         IN  IF r.threw THEN r
             ELSE deepMergeKeys(r.heap, base, overlay, Tail(keys))

\* deepMerge(base, overlay) of two cells: the new heap, and whether it threw
deepMerge(h, base, overlay) == deepMergeKeys(h, Ref(base), overlay, KeySeq)

\* a variant of renderParagraph that merges into the named style itself
MergedStyles_NoCopy(h, named, text, own) ==
    LET m == deepMerge(h, named, own)
    IN  [heap |-> m.heap, threw |-> m.threw, para |-> named, text |-> text]

\* renderParagraph, lines 513-520: mergedParaStyle and mergedTextStyle
MergedStyles(h, named, text, own) ==
    LET c1 == deepCopy(h, named)
        c2 == deepCopy(c1.heap, text)
        m == deepMerge(c2.heap, c1.ref, own)
    IN  [heap |-> m.heap, threw |-> m.threw, para |-> c1.ref, text |-> c2.ref]

\* renderTextRun, lines 721-722: finalStyle
FinalStyle(h, baseStyle, own) ==
    LET c == deepCopy(h, baseStyle)
        m == deepMerge(c.heap, c.ref, own)
    IN  [heap |-> m.heap, threw |-> m.threw, ref |-> c.ref]

(***************************************************************************)
(* SpecStyle                                                               *)
(***************************************************************************)
\* the values of a property of a style object
NestedObjects == { Value("obj", 0, f) : f \in { g \in [Keys -> Primitives] : g["b"] \in {Absent, Num(1)} } }
Arrays == { Value("arr", v, NoFields) : v \in {1, 2} }
PrimitiveValues == { Value(p.t, p.n, NoFields) : p \in Primitives }
Obj(a, b) == [k \in Keys |-> IF k = "a" THEN a ELSE b]
\* objects that hold an object or an array: {a: {a: 1}}, {a: {b: 2}, b: 1}, {a: [1]}
DeepObjects ==
    { Value("obj", 0, Obj(Value("obj", 0, Obj(Num(1), Absent)), Absent)),
      Value("obj", 0, Obj(Value("obj", 0, Obj(Absent, Num(2))), Num(1))),
      Value("obj", 0, Obj(Value("arr", 1, NoFields), Absent)) }
StyleObjects ==
    { o \in [Keys -> NestedObjects \cup DeepObjects \cup Arrays \cup PrimitiveValues] :
        o["b"] \in PrimitiveValues }

AbsentValue == Value("absent", 0, NoFields)
NumValue(v) == Value("num", v, NoFields)
\* (named text style, text style of a run)
TextStylePairs ==
    { <<Obj(Value("obj", 0, Obj(Num(1), Absent)), NumValue(1)),
        Obj(Value("obj", 0, Obj(Num(2), Num(1))), NumValue(2))>>,
      <<Obj(Value("obj", 0, Obj(Value("obj", 0, Obj(Num(1), Absent)), Absent)), NumValue(1)),
        Obj(Value("obj", 0, Obj(Value("obj", 0, Obj(Absent, Num(2))), Absent)), AbsentValue)>>,
      <<Obj(AbsentValue, NumValue(1)), Obj(Value("obj", 0, Obj(Num(1), Absent)), AbsentValue)>>,
      <<Obj(NumValue(1), AbsentValue),
        Obj(Value("obj", 0, Obj(Value("obj", 0, Obj(Num(1), Absent)), Absent)), AbsentValue)>>,
      <<Obj(Value("arr", 1, NoFields), AbsentValue),
        Obj(Value("obj", 0, Obj(Num(1), Absent)), NumValue(0))>> }

Inputs ==
    { [named |-> A, own |-> B, text |-> tr[1], run |-> tr[2]] :
        A \in StyleObjects, B \in StyleObjects, tr \in TextStylePairs }

InitStyle ==
    /\ input \in Inputs
    /\ LET p1 == Parse(<<>>, input.named)
           p2 == Parse(p1.heap, input.own)
           p3 == Parse(p2.heap, input.text)
           p4 == Parse(p3.heap, input.run)
       IN  /\ heap = p4.heap
           /\ refs = [named |-> p1.ref, own |-> p2.ref, text |-> p3.ref, run |-> p4.ref,
                      copy |-> 0, empty |-> 0, para |-> 0, mergedText |-> 0, final |-> 0]
    /\ pc = "style"
    /\ result = NoResult
    /\ doc = <<>>
    /\ listItemCounts = NoCounts
    /\ annot = <<>>
    /\ i = 1
    /\ listStack = <<>>
    /\ prevNestingLevel = -1
    /\ prevListId = Null
    /\ htmlLines = <<>>
    /\ listChange = <<>>

\* const copy = deepCopy(A)
DeepCopy ==
    /\ pc = "style"
    /\ LET c == deepCopy(heap, refs.named)
       IN  /\ heap' = c.heap
           /\ refs' = [refs EXCEPT !.copy = c.ref]
    /\ pc' = "copied"
    /\ UNCHANGED <<input, exportVars, result>>

\* deepMerge(copy, B); a TypeError of the merge ends the run
MergeIntoCopy ==
    /\ pc = "copied"
    /\ LET m == deepMerge(heap, refs.copy, refs.own)
       IN  /\ heap' = m.heap
           /\ pc' = IF m.threw THEN "mergeThrew" ELSE "merged"
    /\ UNCHANGED <<refs, input, exportVars, result>>

\* deepMerge(copy, {})
MergeEmptyIntoCopy ==
    /\ pc = "copied"
    /\ LET h1 == Append(heap, EmptyObject)
       IN  /\ heap' = deepMerge(h1, refs.copy, Len(h1)).heap
           /\ refs' = [refs EXCEPT !.empty = Len(h1)]
    /\ pc' = "mergedEmpty"
    /\ UNCHANGED <<input, exportVars, result>>

\* deepMerge(A, B); a TypeError of the merge ends the run
MergeDirect ==
    /\ pc = "style"
    /\ LET m == deepMerge(heap, refs.named, refs.own)
       IN  /\ heap' = m.heap
           /\ pc' = IF m.threw THEN "directThrew" ELSE "mergedDirect"
    /\ UNCHANGED <<refs, input, exportVars, result>>

\* renderParagraph of a paragraph whose named style is A and whose own style
\* is B; a TypeError of deepMerge (line 520) leaves renderParagraph
RenderParagraphStyle ==
    /\ pc \in {"style", "paragraph"}
    /\ Len(heap) < MaxHeap
    /\ LET m == MergedStyles(heap, refs.named, refs.text, refs.own)
       IN  /\ heap' = m.heap
           /\ refs' = [refs EXCEPT !.para = m.para, !.mergedText = m.text]
           /\ pc' = IF m.threw THEN "renderThrew" ELSE "paragraph"
    /\ UNCHANGED <<input, exportVars, result>>

\* renderTextRun of a run of the paragraph; a TypeError of deepMerge
\* (line 722) leaves renderTextRun
RenderTextRunStyle ==
    /\ pc = "paragraph"
    /\ Len(heap) < MaxHeap
    /\ LET f == FinalStyle(heap, refs.mergedText, refs.run)
       IN  /\ heap' = f.heap
           /\ refs' = [refs EXCEPT !.final = f.ref]
           /\ pc' = IF f.threw THEN "renderThrew" ELSE "paragraph"
    /\ UNCHANGED <<input, exportVars, result>>

NextStyle ==
    \/ DeepCopy
    \/ MergeIntoCopy
    \/ MergeEmptyIntoCopy
    \/ MergeDirect
    \/ RenderParagraphStyle
    \/ RenderTextRunStyle

SpecStyle == InitStyle /\ [][NextStyle]_vars

(***************************************************************************)
(* Properties of the style merge                                           *)
(***************************************************************************)
\* C8: merging {} into a deep copy of A leaves an object equal to A, and
\* neither that merge nor the merge of B into a deep copy of A changes A,
\* whether the merge of B returned or threw.
C8_CopyThenMerge ==
    /\ pc = "mergedEmpty" =>
          /\ Snapshot(heap, refs.copy) = input.named
          /\ Snapshot(heap, refs.named) = input.named
    /\ pc \in {"merged", "mergeThrew"} => Snapshot(heap, refs.named) = input.named

\* B has been merged into the copy of A, two levels down, and the copy differs from A
C8_Witness ==
    /\ pc = "merged"
    /\ input.named["a"].t = "obj"
    /\ input.named["a"].sub["a"].t = "obj"
    /\ input.own["a"].t = "obj"
    /\ input.own["a"].sub["a"].t = "obj"
    /\ Snapshot(heap, refs.copy) # input.named

\* C9: while paragraphs and text runs are rendered, the paragraph style and
\* the text style of the named style keep the content they had in the
\* document, whether the rendering returned or threw.
C9_NamedStylesUnchanged ==
    pc \in {"paragraph", "renderThrew"} =>
        /\ Snapshot(heap, refs.named) = input.named
        /\ Snapshot(heap, refs.text) = input.text

\* a paragraph and a text run have been rendered with overrides, two levels
\* down, that changed the effective styles
C9_Witness ==
    /\ pc = "paragraph"
    /\ refs.final # 0
    /\ input.named["a"].t = "obj"
    /\ input.named["a"].sub["a"].t = "obj"
    /\ input.own["a"].t = "obj"
    /\ input.own["a"].sub["a"].t = "obj"
    /\ input.text["a"].t = "obj"
    /\ input.text["a"].sub["a"].t = "obj"
    /\ Snapshot(heap, refs.para) # input.named
    /\ Snapshot(heap, refs.final) # input.text

\* the merge of B into the copy of A threw: A holds a number where B nests an
\* object two levels down
MergeThrew == pc = "mergeThrew"
\* renderTextRun threw after a paragraph was rendered
RunThrew == pc = "renderThrew" /\ refs.final # 0
\* renderParagraph threw
ParagraphThrew == pc = "renderThrew" /\ refs.final = 0
DirectThrew == pc = "directThrew"

\* the overlay wins in the value after, given the value before the merge
RECURSIVE ValueWins(_, _, _)
ValueWins(after, before, overlay) ==
    IF overlay.t = "absent" THEN after = before
    ELSE IF overlay.t = "obj" THEN
        /\ after.t \in {"obj", "arr"}
        /\ \A j \in Keys :
              ValueWins(after.sub[j],
                        IF before.t \in {"obj", "arr"} THEN before.sub[j] ELSE Absent,
                        overlay.sub[j])
    ELSE after = overlay

\* the overlay wins in after, given the base before the merge
OverlayWins(after, before, overlay) ==
    \A k \in Keys : ValueWins(after[k], before[k], overlay[k])

\* C10: after deepMerge(A, B) every key of B holds B's value in A (plain
\* objects key by key, anything else wholesale) whatever A held there, and the
\* keys that only A has keep their values.
C10_OverlayWins ==
    pc = "mergedDirect" =>
        OverlayWins(Snapshot(heap, refs.named), input.named, input.own)

(***************************************************************************)
(* lib/constants.js, lib/lists.js                                          *)
(***************************************************************************)
MaxDepth == 2

INDENT_LEVEL_0_MAX == 40
INDENT_LEVEL_1_MIN == 60

BULLET_STYLE_MAP ==
    [ sym \in {"\\u25cf", "\\u25cb", "\\u25a0", "-"} |->
        CASE sym = "\\u25cf" -> "disc"
          [] sym = "\\u25cb" -> "circle"
          [] sym = "\\u25a0" -> "square"
          [] sym = "-" -> "dash" ]

NUMBER_STYLE_MAP ==
    [ DECIMAL |-> "decimal", UPPER_ALPHA |-> "upper-alpha", LOWER_ALPHA |-> "lower-alpha",
      ALPHA |-> "lower-alpha", UPPER_ROMAN |-> "upper-roman", ROMAN |-> "upper-roman",
      LOWER_ROMAN |-> "lower-roman" ]

\* a paragraph as lib/lists.js reads it: bullet, and paragraphStyle.indentStart.magnitude
\* (Undefined when it is absent)
LibParagraph(bullet, listId, level, indentStart) ==
    [bullet |-> bullet, listId |-> listId, nestingLevel |-> level, indentStart |-> indentStart]

\* a variant that takes level 0 between the thresholds
inferNestingLevel_NoFallback(paragraph, prevLevel) ==
    LET indentStart == OrElse(paragraph.indentStart, 0)
    IN  IF paragraph.nestingLevel # Undefined THEN paragraph.nestingLevel
        ELSE IF indentStart <= INDENT_LEVEL_0_MAX THEN 0
        ELSE IF indentStart >= INDENT_LEVEL_1_MIN THEN 1
        ELSE 0

inferNestingLevel(paragraph, prevLevel) ==
    \* paragraphStyle?.indentStart?.magnitude || 0
    LET indentStart == OrElse(paragraph.indentStart, 0)
    IN  IF paragraph.nestingLevel # Undefined THEN paragraph.nestingLevel
        ELSE IF indentStart <= INDENT_LEVEL_0_MAX THEN 0
        ELSE IF indentStart >= INDENT_LEVEL_1_MIN THEN 1
        ELSE IF prevLevel >= 0 THEN prevLevel ELSE 0

\* the properties that an object literal inherits from Object.prototype
ObjectPrototypeKeys ==
    {"constructor", "__defineGetter__", "__defineSetter__", "hasOwnProperty",
     "__lookupGetter__", "__lookupSetter__", "isPrototypeOf", "propertyIsEnumerable",
     "toString", "valueOf", "__proto__", "toLocaleString"}
\* the value found under an inherited key: a function, or Object.prototype
\* itself under __proto__; it is truthy and it is not a string
Inherited(key) == "Object.prototype." \o key
IsInherited(value) == value \in { Inherited(key) : key \in ObjectPrototypeKeys }
\* map[key] || default, for a map whose own values are non-empty strings
LookupOr(map, key, default) ==
    IF key \in DOMAIN map THEN map[key]
    ELSE IF key \in ObjectPrototypeKeys THEN Inherited(key)
    ELSE default

detectBulletStyle(glyph) ==
    IF glyph.glyphSymbol = NoField THEN "disc"
    ELSE LookupOr(BULLET_STYLE_MAP, glyph.glyphSymbol, "disc")

detectNumberStyle(glyph) ==
    IF glyph.glyphType = NoField THEN "decimal"
    ELSE LookupOr(NUMBER_STYLE_MAP, glyph.glyphType, "decimal")

\* a variant that looks at the glyph type before the glyph symbol
isNumberedList_TypeFirst(glyph, listId, nestingLevel, counts) ==
    LET isBullet == glyph.glyphSymbol # NoField
        explicitlyNumbered == glyph.glyphType \in NUMBERED_GLYPH_TYPES
    IN  IF explicitlyNumbered THEN TRUE
        ELSE IF isBullet THEN FALSE
        ELSE IF glyph.glyphType = "GLYPH_TYPE_UNSPECIFIED"
             THEN ItemCount(counts, CountKey(listId, nestingLevel)) = 1
        ELSE FALSE

isNumberedList(glyph, listId, nestingLevel, counts) ==
    LET isBullet == glyph.glyphSymbol # NoField
        explicitlyNumbered == glyph.glyphType \in NUMBERED_GLYPH_TYPES
    IN  IF isBullet THEN FALSE
        ELSE IF explicitlyNumbered THEN TRUE
        ELSE IF glyph.glyphType = "GLYPH_TYPE_UNSPECIFIED"
             THEN ItemCount(counts, CountKey(listId, nestingLevel)) = 1
        ELSE FALSE

\* the parts <<startType, rtlFlag, styleFlag>> of a list type name and their lower case
StyleFlags ==
    {"", "_DASH", "_CIRCLE", "_SQUARE", "_UPPER_ALPHA", "_LOWER_ALPHA", "_UPPER_ROMAN",
     "_LOWER_ROMAN"}
TypeParts == {"UL", "OL"} \X {"", "_RTL"} \X StyleFlags
LowerCaseTable ==
    { <<"UL", "ul">>, <<"OL", "ol">>, <<"", "">>, <<"_RTL", "_rtl">>, <<"_DASH", "_dash">>,
      <<"_CIRCLE", "_circle">>, <<"_SQUARE", "_square">>, <<"_UPPER_ALPHA", "_upper_alpha">>,
      <<"_LOWER_ALPHA", "_lower_alpha">>, <<"_UPPER_ROMAN", "_upper_roman">>,
      <<"_LOWER_ROMAN", "_lower_roman">> }
LowerPart(part) == (CHOOSE e \in LowerCaseTable : e[1] = part)[2]
UpperName(parts) == parts[1] \o parts[2] \o parts[3]
LowerName(parts) == LowerPart(parts[1]) \o LowerPart(parts[2]) \o LowerPart(parts[3])
PartsOfUpper(name) == CHOOSE parts \in TypeParts : UpperName(parts) = name
PartsOfLower(name) == CHOOSE parts \in TypeParts : LowerName(parts) = name
\* typeInfo.toLowerCase()
TypeToLowerCase(name) == LowerName(PartsOfUpper(name))
\* parentType.toUpperCase()
TypeToUpperCase(name) == UpperName(PartsOfLower(name))
\* listType.startsWith('u')
TypeStartsWithU(name) == PartsOfLower(name)[1] = "UL"

\* `_${style.toUpperCase().replace(/-/g, '_')}`
StyleFlagOf(style) ==
    CASE style = "dash" -> "_DASH"
      [] style = "circle" -> "_CIRCLE"
      [] style = "square" -> "_SQUARE"
      [] style = "disc" -> "_DISC"
      [] style = "decimal" -> "_DECIMAL"
      [] style = "upper-alpha" -> "_UPPER_ALPHA"
      [] style = "lower-alpha" -> "_LOWER_ALPHA"
      [] style = "upper-roman" -> "_UPPER_ROMAN"
      [] style = "lower-roman" -> "_LOWER_ROMAN"

\* the call that throws: toUpperCase of a style that is no string
TypeError == [verb |-> "throw", typeInfo |-> "TypeError", level |-> Undefined]

\* detectListChange of lib/lists.js: a sequence of actions, <<>> for null,
\* <<TypeError>> when it throws
libDetectListChange(paragraph, counts, stack, isRTL, prevLevel, prevId) ==
    LET listId == paragraph.listId
        nestingLevel == inferNestingLevel(paragraph, prevLevel)
        glyph == GlyphAt(listId, nestingLevel)
        isNumbered == isNumberedList(glyph, listId, nestingLevel, counts)
        bulletStyle == detectBulletStyle(glyph)
        numberStyle == detectNumberStyle(glyph)
        startType == IF isNumbered THEN "OL" ELSE "UL"
        rtlFlag == IF isRTL THEN "_RTL" ELSE ""
        styleFlag == IF isNumbered
                     THEN (IF numberStyle # "decimal" THEN StyleFlagOf(numberStyle) ELSE "")
                     ELSE (IF bulletStyle # "disc" THEN StyleFlagOf(bulletStyle) ELSE "")
        start == StartAction(startType \o rtlFlag \o styleFlag, nestingLevel)
        wantType == LowerPart(startType) \o (IF isRTL THEN "_rtl" ELSE "") \o LowerPart(styleFlag)
        ends == AscentActions(prevLevel, nestingLevel)
        stackIndexAfterClosing == Len(stack) - (prevLevel - nestingLevel)
        parentType == IF stackIndexAfterClosing \in DOMAIN stack
                      THEN FrameType(stack[stackIndexAfterClosing]) ELSE ""
        currentType == FrameType(stack[Len(stack)])
        EndOf(type) == EndAction(IF type = "" THEN "UL" ELSE TypeToUpperCase(type))
    IN  IF ~paragraph.bullet THEN <<>>
        ELSE IF ~HasListDef(listId) THEN <<>>
        ELSE IF ~HasGlyph(listId, nestingLevel) THEN <<>>
        ELSE IF ~isNumbered /\ IsInherited(bulletStyle) THEN <<TypeError>>
        ELSE IF Len(stack) = 0 THEN <<start>>
        ELSE IF nestingLevel > prevLevel THEN <<start>>
        ELSE IF nestingLevel < prevLevel THEN
            IF stackIndexAfterClosing > 0 /\ parentType # wantType
            THEN ends \o <<EndOf(parentType), start>>
            ELSE ends
        ELSE IF currentType # wantType THEN <<EndOf(currentType), start>>
        ELSE <<>>

\* listStyle of handleListState
ListStyleAttr(typeInfo) ==
    LET styleFlag == PartsOfUpper(typeInfo)[3]
    IN  CASE styleFlag = "_DASH" -> " style=\"list-style-type: '\\u2212 '\""
          [] styleFlag = "_CIRCLE" -> " style=\"list-style-type: circle\""
          [] styleFlag = "_SQUARE" -> " style=\"list-style-type: square\""
          [] styleFlag = "_UPPER_ALPHA" -> " style=\"list-style-type: upper-alpha\""
          [] styleFlag = "_LOWER_ALPHA" -> " style=\"list-style-type: lower-alpha\""
          [] styleFlag = "_UPPER_ROMAN" -> " style=\"list-style-type: upper-roman\""
          [] styleFlag = "_LOWER_ROMAN" -> " style=\"list-style-type: lower-roman\""
          [] OTHER -> ""

\* a variant that drops dir="rtl" from an ordered list
LibOpenTag_OrderedLtr(typeInfo) ==
    LET parts == PartsOfUpper(typeInfo)
        listStyle == ListStyleAttr(typeInfo)
    IN  IF parts[1] = "UL" /\ parts[2] = "_RTL" THEN Line("<ul dir=\"rtl\"" \o listStyle \o ">")
        ELSE IF parts[1] = "UL" THEN Line("<ul" \o listStyle \o ">")
        ELSE Line("<ol" \o listStyle \o ">")

\* the opening tag that handleListState pushes for `start${typeInfo}`
LibOpenTag(typeInfo) ==
    LET parts == PartsOfUpper(typeInfo)
        listStyle == ListStyleAttr(typeInfo)
    IN  IF parts[1] = "UL" /\ parts[2] = "_RTL" THEN Line("<ul dir=\"rtl\"" \o listStyle \o ">")
        ELSE IF parts[1] = "OL" /\ parts[2] = "_RTL"
        THEN Line("<ol dir=\"rtl\"" \o listStyle \o ">")
        ELSE IF parts[1] = "UL" THEN Line("<ul" \o listStyle \o ">")
        ELSE Line("<ol" \o listStyle \o ">")

\* a variant that knows the unstyled names only
LibCloseTag_Unstyled(top) == IF FrameType(top) \in {"ul", "ul_rtl"} THEN UlClose ELSE OlClose

\* listType.startsWith('u'), top.startsWith('u')
LibCloseTag(top) == IF TypeStartsWithU(FrameType(top)) THEN UlClose ELSE OlClose

\* one action of handleListState of lib/lists.js applied to st = [stack, html]
LibApplyAction(st, action) ==
    IF action.verb = "start" THEN
        [stack |-> Append(st.stack, Frame(TypeToLowerCase(action.typeInfo), action.level)),
         html |-> Append(st.html, LibOpenTag(action.typeInfo))]
    ELSE IF action.verb = "endLIST" THEN
        IF st.stack = <<>> THEN st
        ELSE [stack |-> SubSeq(st.stack, 1, Len(st.stack) - 1),
              html |-> st.html \o <<LibCloseTag(st.stack[Len(st.stack)]), LiClose>>]
    ELSE
        IF st.stack = <<>> THEN st
        ELSE [stack |-> SubSeq(st.stack, 1, Len(st.stack) - 1),
              html |-> Append(st.html, LibCloseTag(st.stack[Len(st.stack)]))]

RECURSIVE LibApplyActions(_, _)
LibApplyActions(st, actions) ==
    IF actions = <<>> THEN st
    ELSE LibApplyActions(LibApplyAction(st, Head(actions)), Tail(actions))

\* handleListState of lib/lists.js
libHandleListState(change, stack, html) ==
    LibApplyActions([stack |-> stack, html |-> html], change)

\* closeAllLists of lib/lists.js
RECURSIVE libCloseAllLists(_, _)
libCloseAllLists(stack, html) ==
    IF Len(stack) = 0 THEN [stack |-> stack, html |-> html]
    ELSE libCloseAllLists(SubSeq(stack, 1, Len(stack) - 1),
                          Append(html, LibCloseTag(stack[Len(stack)])))

(***************************************************************************)
(* SpecLib                                                                 *)
(***************************************************************************)
LibItem(listId, level) == LibParagraph(TRUE, listId, level, 0)
LibParagraphs ==
    { LibItem("b", 0), LibItem("b", 1), LibItem("b", 2), LibItem("n", 0), LibItem("n", 1),
      LibItem("u", 0), LibItem("s", 1), LibItem("x", 0), LibItem("k", 0),
      LibParagraph(FALSE, "", Undefined, 0),
      LibParagraph(TRUE, "b", Undefined, 36), LibParagraph(TRUE, "b", Undefined, 50),
      LibParagraph(TRUE, "n", Undefined, 72) }
LibLevels == -1 .. 2
\* doc.___listItemCounts with the count n under every key
LibCounts(n) == [k \in (ListIds \cup {"x"}) \X (0 .. 2) |-> n]

InitLib ==
    /\ pc = "lib"
    /\ listItemCounts \in {LibCounts(1), LibCounts(2)}
    /\ listStack = <<>>
    /\ htmlLines = <<>>
    /\ listChange = <<>>
    /\ input = NoInput
    /\ result = NoResult
    /\ doc = <<>>
    /\ annot = <<>>
    /\ i = 1
    /\ prevNestingLevel = -1
    /\ prevListId = Null
    /\ heap = <<>>
    /\ refs = NoRefs

\* handleListState(detectListChange(paragraph, doc, listStack, isRTL, prevLevel,
\* prevListId), listStack, htmlLines) with a fresh htmlLines
LibListItem ==
    /\ pc \in {"lib", "item", "closed"}
    /\ Len(listStack) < MaxDepth
    /\ \E paragraph \in LibParagraphs, isRTL \in BOOLEAN, prevLevel \in LibLevels :
          LET change == libDetectListChange(paragraph, listItemCounts, listStack, isRTL,
                                            prevLevel, prevListId)
              st == libHandleListState(change, listStack, <<>>)
          IN  /\ listChange' = change
              /\ input' = [paragraph |-> paragraph, isRTL |-> isRTL, prevLevel |-> prevLevel,
                           stack |-> listStack]
              /\ IF change = <<TypeError>>
                 THEN pc' = "failed" /\ UNCHANGED <<listStack, htmlLines>>
                 ELSE /\ listStack' = st.stack
                      /\ htmlLines' = st.html
                      /\ pc' = "item"
    /\ UNCHANGED <<doc, listItemCounts, annot, i, prevNestingLevel, prevListId, heap, refs, result>>

\* closeAllLists(listStack, htmlLines) with a fresh htmlLines
LibCloseAll ==
    /\ pc \in {"lib", "item"}
    /\ LET st == libCloseAllLists(listStack, <<>>)
       IN  /\ listStack' = st.stack
           /\ htmlLines' = st.html
    /\ pc' = "closed"
    /\ UNCHANGED <<doc, listItemCounts, annot, i, prevNestingLevel, prevListId, listChange,
                   input, heap, refs, result>>

NextLib ==
    \/ LibListItem
    \/ LibCloseAll

SpecLib == InitLib /\ [][NextLib]_vars

\* C7: after a bullet paragraph whose list is defined without a glyph for the
\* paragraph's level has been handled, a list is open for it and the innermost
\* open list is a plain unordered list (default disc style).
C7_MissingGlyphDefault ==
    (/\ pc = "item"
     /\ input.paragraph.bullet
     /\ HasListDef(input.paragraph.listId)
     /\ ~HasGlyph(input.paragraph.listId,
                  inferNestingLevel(input.paragraph, input.prevLevel)))
    => /\ listStack # <<>>
       /\ FrameType(listStack[Len(listStack)]) \in {"ul", "ul_rtl"}

(***************************************************************************)
(* SpecPure: the functions without state                                   *)
(***************************************************************************)
InitPure ==
    /\ pc = "pure"
    /\ input = NoInput
    /\ result = NoResult
    /\ doc = <<>>
    /\ listItemCounts = NoCounts
    /\ annot = <<>>
    /\ i = 1
    /\ listStack = <<>>
    /\ prevNestingLevel = -1
    /\ prevListId = Null
    /\ htmlLines = <<>>
    /\ listChange = <<>>
    /\ heap = <<>>
    /\ refs = NoRefs

\* what a call leaves alone
PureFrame == UNCHANGED <<exportVars, heap, refs>>

(***************************************************************************)
(* renderParagraph: alignment                                              *)
(***************************************************************************)
alignmentMapLTR ==
    [START |-> "left", CENTER |-> "center", END |-> "right", JUSTIFIED |-> "justify"]

Directions == {NoField, "LEFT_TO_RIGHT", "RIGHT_TO_LEFT"}
Alignments ==
    {NoField, "ALIGNMENT_UNSPECIFIED", "START", "CENTER", "END", "JUSTIFIED", "toString"}

\* a field of mergedParaStyle: the paragraph's own value when it has the key,
\* else the value of the copy of the named style
MergedField(named, own) == IF own # NoField THEN own ELSE named

\* a variant without the flip
FlipAlign_Never(align, isRTL) == align

\* lines 559-562
FlipAlign(align, isRTL) ==
    IF isRTL /\ (align = "START" \/ align = "END")
    THEN (IF align = "START" THEN "END" ELSE "START")
    ELSE align

\* lines 523, 559-568: the value of text-align, "" when none is written;
\* alignmentMapLTR[align] of a key the map inherits is a function, and it is
\* written as the value
TextAlign(named, own) ==
    LET isRTL == MergedField(named.direction, own.direction) = "RIGHT_TO_LEFT"
        align == FlipAlign(MergedField(named.alignment, own.alignment), isRTL)
    IN  IF align # NoField THEN LookupOr(alignmentMapLTR, align, "") ELSE ""

ParaStyles == [direction : Directions, alignment : Alignments]

CallTextAlign ==
    /\ pc = "pure"
    /\ \E named \in ParaStyles, own \in ParaStyles :
          /\ input' = [named |-> named, own |-> own]
          /\ result' = TextAlign(named, own)
    /\ pc' = "textAlign"
    /\ PureFrame

\* C11: in a right-to-left paragraph START gives text-align right and END
\* gives left; CENTER and JUSTIFIED give center and justify in either
\* direction; in a left-to-right paragraph START gives left and END right.
C11_AlignmentFlip ==
    pc = "textAlign" =>
        LET direction == IF input.own.direction # NoField THEN input.own.direction
                         ELSE input.named.direction
            alignment == IF input.own.alignment # NoField THEN input.own.alignment
                         ELSE input.named.alignment
            rtl == direction = "RIGHT_TO_LEFT"
        IN  /\ (rtl /\ alignment = "START") => result = "right"
            /\ (rtl /\ alignment = "END") => result = "left"
            /\ alignment = "CENTER" => result = "center"
            /\ alignment = "JUSTIFIED" => result = "justify"
            /\ (~rtl /\ alignment = "START") => result = "left"
            /\ (~rtl /\ alignment = "END") => result = "right"

\* the direction comes from the named style, the alignment START from the
\* paragraph, and the text is aligned right
C11_Witness ==
    /\ pc = "textAlign"
    /\ input.named.direction = "RIGHT_TO_LEFT"
    /\ input.own.direction = NoField
    /\ input.own.alignment = "START"
    /\ result = "right"

(***************************************************************************)
(* mergeTextRuns, isSameTextStyle                                          *)
(***************************************************************************)
\* the fields of isSameTextStyle
TrackedFields ==
    {"bold", "italic", "underline", "strikethrough", "baselineOffset", "fontSize",
     "weightedFontFamily", "foregroundColor", "backgroundColor", "link", "smallCaps"}
BooleanFields == {"bold", "italic", "underline", "strikethrough", "smallCaps"}

\* the value of a field of a text style: "absent", the booleans "false" and
\* "true", or one of two values "v1", "v2" of the field's type (an object or a
\* string) written as its JSON text
NoStyle == [f \in TrackedFields |-> "absent"]
With(style, f, v) == [style EXCEPT ![f] = v]

\* JSON.stringify(a[f]||null)
StringifyOrNull(v) == IF v = "absent" \/ v = "false" THEN "null" ELSE v

\* a variant that compares the first field only
isSameTextStyle_BoldOnly(a, b) == StringifyOrNull(a["bold"]) = StringifyOrNull(b["bold"])

isSameTextStyle(a, b) ==
    \A f \in TrackedFields : StringifyOrNull(a[f]) = StringifyOrNull(b[f])

\* a paragraph element; kind is the key it carries
TextRun(content, style) == [kind |-> "textRun", content |-> content, textStyle |-> style]
NonText(kind) == [kind |-> kind, content |-> "", textStyle |-> NoStyle]
PushedKinds == {"inlineObjectElement", "footnoteReference", "equation", "autoText"}

\* the loop of mergeTextRuns; last is the index in merged of the run that
\* `last` refers to, 0 for null
RECURSIVE MergeLoop(_, _, _)
MergeLoop(elements, merged, last) ==
    IF elements = <<>> THEN merged
    ELSE LET e == Head(elements)
         IN  IF e.kind \in PushedKinds
             THEN MergeLoop(Tail(elements), Append(merged, NonText(e.kind)), 0)
             ELSE IF e.kind = "textRun" THEN
                 IF last # 0 /\ isSameTextStyle(merged[last].textStyle, e.textStyle)
                 THEN MergeLoop(Tail(elements),
                                [merged EXCEPT ![last].content = @ \o e.content], last)
                 ELSE MergeLoop(Tail(elements),
                                Append(merged, TextRun(e.content, e.textStyle)),
                                Len(merged) + 1)
             \* an element of another kind is skipped
             ELSE MergeLoop(Tail(elements), merged, last)

mergeTextRuns(elements) == MergeLoop(elements, <<>>, 0)

\* the text styles of the runs: no field, and one field set
RunStyles ==
    {NoStyle}
    \cup { With(NoStyle, f, v) : f \in TrackedFields, v \in {"v1", "v2"} }
    \cup { With(NoStyle, f, v) : f \in BooleanFields, v \in {"false", "true"} }
    \cup { With(With(NoStyle, "bold", "true"), "fontSize", v) : v \in {"v1", "v2"} }
Runs == { TextRun(c, s) : c \in {"Hello ", "World"}, s \in RunStyles }
FewRuns == { TextRun(c, s) : c \in {"Hello ", "World"},
                             s \in {NoStyle, With(NoStyle, "bold", "true")} }
FewElements == FewRuns \cup {NonText("inlineObjectElement"), NonText("pageBreak")}
ElementLists ==
    { <<a, b>> : a \in Runs, b \in Runs }
    \cup { <<a, b, c>> : a \in FewElements, b \in FewElements, c \in FewElements }

CallMergeTextRuns ==
    /\ pc = "pure"
    /\ \E elements \in ElementLists :
          /\ input' = elements
          /\ result' = mergeTextRuns(elements)
    /\ pc' = "mergeTextRuns"
    /\ PureFrame

\* C12: two adjacent text runs become one run with the concatenated content
\* exactly when they have the same value in every tracked field, and stay two
\* runs in their order otherwise.
C12_MergeExactlyWhenEqual ==
    (pc = "mergeTextRuns" /\ Len(input) = 2) =>
        IF \A f \in TrackedFields : input[1].textStyle[f] = input[2].textStyle[f]
        THEN result = <<TextRun(input[1].content \o input[2].content, input[1].textStyle)>>
        ELSE result = input

(***************************************************************************)
(* ptToPx (lib/utils.js)                                                   *)
(***************************************************************************)
MaxTenths == 800
NegTenths == 20

\* an argument of ptToPx: a number given in tenths of a point, or a value
\* that is not a number
Number(tenths) == [kind |-> "number", tenths |-> tenths]
NotANumber(kind) == [kind |-> kind, tenths |-> 0]
NonNumbers == { NotANumber(k) : k \in {"null", "undefined", "NaN", "string"} }

\* Math.round(x) for x = numerator / 100000: the nearest integer, a half goes up
MathRound(numerator) == (numerator + 50000) \div 100000

\* a variant that truncates
ptToPx_Floor(pts) ==
    IF pts.kind # "number" THEN 0 ELSE (pts.tenths * 13333) \div 100000

\* typeof pts !== 'number' || isNaN(pts) gives 0, else Math.round(pts * 1.3333)
ptToPx(pts) ==
    IF pts.kind # "number" THEN 0 ELSE MathRound(pts.tenths * 13333)

\* ptToPx is called on a value and on a second, larger one
PtPairs ==
    { <<Number(t), Number(t + d)>> : t \in (-NegTenths) .. MaxTenths, d \in {0, 1, 7} }
    \cup { <<v, Number(0)>> : v \in NonNumbers }

CallPtToPx ==
    /\ pc = "pure"
    /\ \E args \in PtPairs :
          /\ input' = args
          /\ result' = <<ptToPx(args[1]), ptToPx(args[2])>>
    /\ pc' = "ptToPx"
    /\ PureFrame

\* C13: ptToPx of a number is the integer nearest to pts * 1.3333, does not
\* decrease when pts grows, is 0, 16 and 96 for 0, 12 and 72, and is 0 for
\* null, undefined, NaN and a string.
C13_PtToPx ==
    pc = "ptToPx" =>
        /\ input[1].kind # "number" => result[1] = 0
        /\ input[1].kind = "number" =>
              /\ 100000 * result[1] - 13333 * input[1].tenths \in -50000 .. 50000
              /\ result[1] <= result[2]
              /\ input[1].tenths = 0 => result[1] = 0
              /\ input[1].tenths = 120 => result[1] = 16
              /\ input[1].tenths = 720 => result[1] = 96

\* 12pt has been converted
C13_Witness ==
    /\ pc = "ptToPx"
    /\ input[1] = Number(120)
    /\ result[1] = 16
    /\ result[2] >= 16

(***************************************************************************)
(* isNumberedList (lib/lists.js)                                           *)
(***************************************************************************)
GlyphSymbols == {NoField, "\\u25cf", "\\u25cb", "\\u25a0", "-", "*", "constructor"}
GlyphTypes ==
    {NoField, "GLYPH_TYPE_UNSPECIFIED", "NONE", "UNKNOWN_TYPE", "toString"}
    \cup NUMBERED_GLYPH_TYPES
\* a glyph; a glyph that is null or undefined reads as the glyph without fields
Glyphs == { Glyph(sym, type) : sym \in GlyphSymbols, type \in GlyphTypes }
\* the count under the key `list1:0`, Undefined when the key is absent
GlyphCounts == {Undefined, 0, 1, 2, 3}
CountsOf(count) ==
    IF count = Undefined THEN NoCounts ELSE [k \in {CountKey("list1", 0)} |-> count]

CallIsNumberedList ==
    /\ pc = "pure"
    /\ \E glyph \in Glyphs, count \in GlyphCounts :
          /\ input' = [glyph |-> glyph, count |-> count]
          /\ result' = isNumberedList(glyph, "list1", 0, CountsOf(count))
    /\ pc' = "isNumberedList"
    /\ PureFrame

\* C14: a glyph with a symbol is unordered whatever its type; else a numbered
\* glyph type is ordered; else GLYPH_TYPE_UNSPECIFIED is ordered exactly when
\* the item count (1 when none is recorded) is 1; else the glyph is unordered.
C14_Precedence ==
    pc = "isNumberedList" =>
        LET glyph == input.glyph
            count == IF input.count = Undefined \/ input.count = 0 THEN 1 ELSE input.count
        IN  IF glyph.glyphSymbol # NoField THEN result = FALSE
            ELSE IF glyph.glyphType \in {"DECIMAL", "ALPHA", "ROMAN", "UPPER_ALPHA",
                                         "UPPER_ROMAN", "LOWER_ALPHA", "LOWER_ROMAN"}
            THEN result = TRUE
            ELSE IF glyph.glyphType = "GLYPH_TYPE_UNSPECIFIED" THEN result = (count = 1)
            ELSE result = FALSE

\* a glyph with a symbol and a numbered type has been called unordered
C14_Witness ==
    /\ pc = "isNumberedList"
    /\ input.glyph.glyphSymbol = "\\u25cf"
    /\ input.glyph.glyphType = "DECIMAL"
    /\ result = FALSE

(***************************************************************************)
(* inferNestingLevel (lib/lists.js)                                        *)
(***************************************************************************)
MaxIndent == 80

\* bullet.nestingLevel, paragraphStyle.indentStart.magnitude (Undefined when
\* absent) and prevLevel
InferLevels == {Undefined} \cup (0 .. 3)
InferIndents == {Undefined} \cup (0 .. MaxIndent)
InferPrevLevels == -1 .. 3

CallInferNestingLevel ==
    /\ pc = "pure"
    /\ \E level \in InferLevels, indentStart \in InferIndents, prevLevel \in InferPrevLevels :
          /\ input' = [nestingLevel |-> level, indentStart |-> indentStart,
                       prevLevel |-> prevLevel]
          /\ result' = inferNestingLevel(LibParagraph(TRUE, "b", level, indentStart), prevLevel)
    /\ pc' = "inferNestingLevel"
    /\ PureFrame

\* C15: an explicit nestingLevel is returned as it is; without one the level
\* is 0 for an indent of at most 40pt or no indent, 1 for an indent of at
\* least 60pt, and in between the previous level when it is >= 0, else 0.
C15_InferNestingLevel ==
    pc = "inferNestingLevel" =>
        LET indent == IF input.indentStart = Undefined THEN 0 ELSE input.indentStart
        IN  IF input.nestingLevel # Undefined THEN result = input.nestingLevel
            ELSE IF indent <= 40 THEN result = 0
            ELSE IF indent >= 60 THEN result = 1
            ELSE IF input.prevLevel >= 0 THEN result = input.prevLevel
            ELSE result = 0

\* an indent between the thresholds has continued at the previous level 2
C15_Witness ==
    /\ pc = "inferNestingLevel"
    /\ input.nestingLevel = Undefined
    /\ input.indentStart = 50
    /\ input.prevLevel = 2
    /\ result = 2

(***************************************************************************)
(* closeAllLists (lib/lists.js, main script) as a function of its arguments *)
(***************************************************************************)
\* an argument that may be null or undefined
Given(value) == [isNull |-> FALSE, value |-> value]
NullArg == [isNull |-> TRUE, value |-> <<>>]

\* closeAllLists of the main script (part_005:1010-1016), which has no guard
\* on its arguments: reading listStack.length of null throws, and so does
\* htmlLines.push on null after the first pop; on two arrays of strings its
\* loop is the loop of lib/lists.js
mainCloseAllListsCall(stackArg, htmlArg) ==
    IF stackArg.isNull THEN [stack |-> stackArg, html |-> htmlArg, threw |-> TRUE]
    ELSE IF htmlArg.isNull THEN
        IF stackArg.value = <<>>
        THEN [stack |-> stackArg, html |-> htmlArg, threw |-> FALSE]
        ELSE [stack |-> Given(SubSeq(stackArg.value, 1, Len(stackArg.value) - 1)),
              html |-> htmlArg, threw |-> TRUE]
    ELSE LET st == libCloseAllLists(stackArg.value, htmlArg.value)
         IN  [stack |-> Given(st.stack), html |-> Given(st.html), threw |-> FALSE]

\* closeAllLists(listStack, htmlLines) of lib/lists.js: the arguments
\* afterwards, and whether it threw
closeAllListsCall(stackArg, htmlArg) ==
    \* if (!listStack || !htmlLines) return
    IF stackArg.isNull \/ htmlArg.isNull
    THEN [stack |-> stackArg, html |-> htmlArg, threw |-> FALSE]
    ELSE LET st == libCloseAllLists(stackArg.value, htmlArg.value)
         IN  [stack |-> Given(st.stack), html |-> Given(st.html), threw |-> FALSE]

\* the list type names of a stack entry
LowerNames == { LowerName(parts) : parts \in TypeParts }
FewNames == {"ul", "ol", "ul_rtl", "ol_rtl", "ul_circle", "ol_upper_alpha", "ul_rtl_dash"}
CloseStacks ==
    {<<>>}
    \cup { <<Frame(a, 0)>> : a \in LowerNames }
    \cup { <<Frame(a, 0), Frame(b, 1)>> : a \in LowerNames, b \in LowerNames }
    \cup { <<Frame(a, 0), Frame(b, 1), Frame(c, 2)>> : a \in FewNames, b \in FewNames,
                                                     c \in FewNames }
CloseArgs ==
    { <<Given(stack), Given(html)>> : stack \in CloseStacks, html \in {<<>>, <<LiClose>>} }
    \cup { <<NullArg, Given(<<>>)>>, <<Given(<<>>), NullArg>>, <<NullArg, NullArg>>,
           <<Given(<<Frame("ul", 0)>>), NullArg>> }

CallCloseAllLists ==
    /\ pc = "pure"
    /\ \E args \in CloseArgs, copy \in {"lib", "main"} :
          /\ input' = [stack |-> args[1], html |-> args[2], copy |-> copy]
          /\ result' = IF copy = "lib" THEN closeAllListsCall(args[1], args[2])
                       ELSE mainCloseAllListsCall(args[1], args[2])
    /\ pc' = "closeAllLists"
    /\ PureFrame

\* the closing tag of a list type name
ClosingTagOf(name) ==
    IF name \in { LowerName(parts) : parts \in {"UL"} \X {"", "_RTL"} \X StyleFlags }
    THEN UlClose ELSE OlClose

\* C16: closeAllLists, in lib/lists.js and in the main script, never throws;
\* given a stack and lines it leaves the stack empty and appends one closing
\* tag per frame, innermost first, </ul> for an unordered frame and </ol> for
\* an ordered one; given null it does nothing.
C16_CloseAllLists ==
    pc = "closeAllLists" =>
        /\ ~result.threw
        /\ (input.stack.isNull \/ input.html.isNull) =>
              (result.stack = input.stack /\ result.html = input.html)
        /\ (~input.stack.isNull /\ ~input.html.isNull) =>
              LET frames == input.stack.value
                  n == Len(frames)
              IN  /\ result.stack = Given(<<>>)
                  /\ result.html.value =
                        input.html.value
                        \o [k \in 1 .. n |-> ClosingTagOf(frames[n + 1 - k].type)]

(***************************************************************************)
(* renderParagraph: the tag and the named style                            *)
(***************************************************************************)
\* paragraphStyle.namedStyleType; NoField when the paragraph has none
NamedStyleTypes ==
    {NoField, "NORMAL_TEXT", "TITLE", "SUBTITLE", "HEADING_1", "HEADING_2", "HEADING_3",
     "HEADING_4", "HEADING_5", "HEADING_6", "HEADING_0", "HEADING_7", "HEADING_10",
     "NAMED_STYLE_TYPE_UNSPECIFIED", "CAPTION",
     "HEADING_", "HEADING_1x", "HEADING_ 2", "HEADING_3.5", "HEADING_+4", "HEADING_-1",
     "HEADING_x1", "heading_1", "HEADING_\\u000b2", "HEADING_\\u00a03", "HEADING_\\ufeff4",
     "HEADING_\\u00e95", "HEADING_\t6", "constructor", "toString"}
\* the keys of namedStylesMap
NamedStyleMaps ==
    { {}, {"NORMAL_TEXT"}, {"NORMAL_TEXT", "TITLE", "HEADING_1", "HEADING_2"},
      NamedStyleTypes \ {NoField} }

\* lines 511-519: what mergedParaStyle starts from, the copy of the named
\* style or {}. namedStylesMap[namedType] of a key the map only inherits is
\* truthy and has no paragraphStyle, and deepCopy(undefined) throws a
\* SyntaxError: "throw"
BaseStyle(styleNamedType, mapKeys) ==
    LET namedType == IF styleNamedType = NoField THEN "NORMAL_TEXT" ELSE styleNamedType
    IN  IF namedType \in mapKeys THEN "copy of " \o namedType
        ELSE IF namedType \in ObjectPrototypeKeys THEN "throw"
        ELSE "{}"

CallParagraphTag ==
    /\ pc = "pure"
    /\ \E namedStyleType \in NamedStyleTypes, mapKeys \in NamedStyleMaps :
          /\ input' = [namedStyleType |-> namedStyleType, mapKeys |-> mapKeys]
          /\ LET base == BaseStyle(namedStyleType, mapKeys)
             IN  result' = [tag |-> IF base = "throw" THEN "throw"
                                    ELSE ParagraphTag(namedStyleType),
                            base |-> base]
    /\ pc' = "paragraphTag"
    /\ PureFrame

\* C18: TITLE gives h1 (class title), SUBTITLE h2 with the class subtitle,
\* HEADING_1 .. HEADING_6 give h1 .. h6, and every other named style type,
\* a missing one included, gives p; a type that is not in the named-styles
\* map causes no error and starts from the empty style.
C18_ParagraphTag ==
    pc = "paragraphTag" =>
        LET type == input.namedStyleType
        IN  /\ result.tag =
                 CASE type = "TITLE" -> "h1 class=\"title\""
                   [] type = "SUBTITLE" -> "h2 class=\"subtitle\""
                   [] type = "HEADING_1" -> "h1"
                   [] type = "HEADING_2" -> "h2"
                   [] type = "HEADING_3" -> "h3"
                   [] type = "HEADING_4" -> "h4"
                   [] type = "HEADING_5" -> "h5"
                   [] type = "HEADING_6" -> "h6"
                   [] OTHER -> "p"
            /\ (type # NoField /\ type \notin input.mapKeys) => result.base = "{}"

(***************************************************************************)
(* renderTableOfContents: the level of an entry                            *)
(***************************************************************************)
\* a body element as findHeadingLevelById reads it: paragraphStyle.headingId
\* (NoField when absent) and paragraphStyle.namedStyleType
BodyParagraph(headingId, namedStyleType) ==
    [kind |-> "paragraph", headingId |-> headingId, namedStyleType |-> namedStyleType]
BodyTable == [kind |-> "table", headingId |-> NoField, namedStyleType |-> NoField]

\* findHeadingLevelById(doc, headingId)
RECURSIVE findHeadingLevelById(_, _)
findHeadingLevelById(content, headingId) ==
    IF content = <<>> THEN 1
    ELSE LET e == Head(content)
             named == IF e.namedStyleType = NoField THEN "NORMAL_TEXT" ELSE e.namedStyleType
         IN  IF e.kind = "paragraph" /\ e.headingId = headingId /\ HeadingLevel(named) >= 1
             THEN HeadingLevel(named)
             ELSE findHeadingLevelById(Tail(content), headingId)

\* lines 451-457: the loop over the elements of the entry; links holds
\* textStyle.link.headingId of each element, NoField when it has none
RECURSIVE MaxLinkedLevel(_, _, _)
MaxLinkedLevel(content, links, headingLevel) ==
    IF links = <<>> THEN headingLevel
    ELSE LET lv == findHeadingLevelById(content, Head(links))
         IN  IF Head(links) # NoField /\ lv > headingLevel
             THEN MaxLinkedLevel(content, Tail(links), lv)
             ELSE MaxLinkedLevel(content, Tail(links), headingLevel)

\* lines 458-459
ClampTocLevel(headingLevel) ==
    IF headingLevel < 1 THEN 1 ELSE IF headingLevel > 4 THEN 4 ELSE headingLevel

\* the n of toc-level-n of an entry
TocLevel(content, links) == ClampTocLevel(MaxLinkedLevel(content, links, 1))

HeadingIds == {"h.a", "h.b"}
BodyElements ==
    { BodyParagraph(id, type) :
        id \in HeadingIds \cup {NoField},
        type \in {NoField, "NORMAL_TEXT", "TITLE", "HEADING_1", "HEADING_3", "HEADING_4",
                  "HEADING_5", "HEADING_6", "HEADING_3.5", "HEADING_x3"} }
    \cup {BodyTable}
Bodies == {<<>>} \cup { <<a>> : a \in BodyElements }
          \cup { <<a, b>> : a \in BodyElements, b \in BodyElements }
LinkIds == HeadingIds \cup {NoField, "h.missing"}
TocEntries == {<<>>} \cup { <<a>> : a \in LinkIds } \cup { <<a, b>> : a \in LinkIds, b \in LinkIds }

CallTocLevel ==
    /\ pc = "pure"
    /\ \E content \in Bodies, links \in TocEntries :
          /\ input' = [content |-> content, links |-> links]
          /\ result' = TocLevel(content, links)
    /\ pc' = "tocLevel"
    /\ PureFrame

\* the body paragraphs with the heading id
Targets(content, id) ==
    { k \in DOMAIN content : content[k].kind = "paragraph" /\ content[k].headingId = id }

\* C19: the level of a table-of-contents entry is in 1..4; an entry with one
\* heading link whose id is on one body paragraph has the heading level of
\* that paragraph, at most 4, or 1 when the paragraph is not a HEADING_n; an
\* entry without heading link or with an id that is not in the body has 1.
C19_TocLevel ==
    pc = "tocLevel" =>
        LET links == input.links
            id == links[1]
            targets == Targets(input.content, id)
            target == input.content[CHOOSE k \in targets : TRUE]
            level == CASE target.namedStyleType = "HEADING_1" -> 1
                       [] target.namedStyleType = "HEADING_3" -> 3
                       [] target.namedStyleType = "HEADING_4" -> 4
                       [] target.namedStyleType = "HEADING_5" -> 4
                       [] target.namedStyleType = "HEADING_6" -> 4
                       [] OTHER -> 1
        IN  /\ result \in 1 .. 4
            /\ (\A k \in DOMAIN links : links[k] = NoField) => result = 1
            /\ (Len(links) = 1 /\ id # NoField /\ targets = {}) => result = 1
            /\ (Len(links) = 1 /\ id # NoField /\ Cardinality(targets) = 1) => result = level

(***************************************************************************)
(* detectBulletStyle, detectNumberStyle (lib/lists.js)                     *)
(***************************************************************************)
CallDetectStyles ==
    /\ pc = "pure"
    /\ \E glyph \in Glyphs :
          /\ input' = glyph
          /\ result' = [bullet |-> detectBulletStyle(glyph), number |-> detectNumberStyle(glyph)]
    /\ pc' = "detectStyles"
    /\ PureFrame

\* C20: the bullet style is disc, circle, square or dash for the four known
\* symbols and disc for a missing or unknown symbol; the number style is the
\* decimal, alpha or roman variant of a known glyph type and decimal for a
\* missing or unknown type; a glyph without fields included.
C20_StyleDefaults ==
    pc = "detectStyles" =>
        /\ result.bullet =
              CASE input.glyphSymbol = "\\u25cf" -> "disc"
                [] input.glyphSymbol = "\\u25cb" -> "circle"
                [] input.glyphSymbol = "\\u25a0" -> "square"
                [] input.glyphSymbol = "-" -> "dash"
                [] OTHER -> "disc"
        /\ CASE input.glyphType = "DECIMAL" -> result.number = "decimal"
             [] input.glyphType = "UPPER_ALPHA" -> result.number = "upper-alpha"
             [] input.glyphType = "LOWER_ALPHA" -> result.number = "lower-alpha"
             [] input.glyphType = "ALPHA" -> result.number \in {"lower-alpha", "upper-alpha"}
             [] input.glyphType = "UPPER_ROMAN" -> result.number = "upper-roman"
             [] input.glyphType = "LOWER_ROMAN" -> result.number = "lower-roman"
             [] input.glyphType = "ROMAN" -> result.number \in {"lower-roman", "upper-roman"}
             [] OTHER -> result.number = "decimal"

(***************************************************************************)
(* handleListState on action strings                                       *)
(***************************************************************************)
\* the longest action string of a call
MaxActions == 2
HandleActions ==
    { StartAction(UpperName(parts), 1) : parts \in TypeParts }
    \cup {EndListAction, EndAction("UL")}
HandleChanges ==
    UNION { [1 .. n -> HandleActions] : n \in 1 .. MaxActions }
HandleStacks == {<<>>, <<Frame("ol_rtl", 0)>>, <<Frame("ul", 0), Frame("ol_lower_roman", 1)>>}
\* the action has one of the four types that the main script emits
StyleFree(action) == action.verb = "start" => PartsOfUpper(action.typeInfo)[3] = ""

\* handleListState(listChange, listStack, []) of lib/lists.js, and of the
\* main script for the action strings that its detectListChange can emit
CallHandleListState ==
    /\ pc = "pure"
    /\ \E change \in HandleChanges, stack \in HandleStacks :
          /\ input' = [change |-> change, stack |-> stack]
          /\ result' = [lib |-> libHandleListState(change, stack, <<>>),
                        main |-> IF \A k \in DOMAIN change : StyleFree(change[k])
                                 THEN handleListState(change, stack, <<>>)
                                 ELSE [stack |-> <<>>, html |-> <<>>]]
    /\ pc' = "handleListState"
    /\ PureFrame

\* the value of list-style-type for a style flag
StyleValue(styleFlag) ==
    CASE styleFlag = "_DASH" -> "'\\u2212 '"
      [] styleFlag = "_CIRCLE" -> "circle"
      [] styleFlag = "_SQUARE" -> "square"
      [] styleFlag = "_UPPER_ALPHA" -> "upper-alpha"
      [] styleFlag = "_LOWER_ALPHA" -> "lower-alpha"
      [] styleFlag = "_UPPER_ROMAN" -> "upper-roman"
      [] styleFlag = "_LOWER_ROMAN" -> "lower-roman"

\* the opening tag for kind, RTL flag and style flag
OpeningTagFor(parts) ==
    Line("<" \o (IF parts[1] = "UL" THEN "ul" ELSE "ol")
             \o (IF parts[2] = "_RTL" THEN " dir=\"rtl\"" ELSE "")
             \o (IF parts[3] = "" THEN ""
                 ELSE " style=\"list-style-type: " \o StyleValue(parts[3]) \o "\"")
             \o ">")

\* what one action does to st = [stack, html]
ActionEffect(st, action) ==
    LET n == Len(st.stack)
    IN  IF action.verb = "start"
        THEN [stack |-> Append(st.stack, Frame(LowerName(PartsOfUpper(action.typeInfo)),
                                               action.level)),
              html |-> Append(st.html, OpeningTagFor(PartsOfUpper(action.typeInfo)))]
        ELSE IF n = 0 THEN st
        ELSE [stack |-> SubSeq(st.stack, 1, n - 1),
              html |-> st.html \o <<ClosingTagOf(st.stack[n].type)>>
                       \o (IF action.verb = "endLIST" THEN <<LiClose>> ELSE <<>>)]

RECURSIVE ActionEffects(_, _)
ActionEffects(st, actions) ==
    IF actions = <<>> THEN st
    ELSE ActionEffects(ActionEffect(st, Head(actions)), Tail(actions))

\* C25: handleListState applies the actions in order: a start pushes one
\* frame and one opening tag, <ul> or <ol> by the action's kind, with
\* dir="rtl" exactly for an RTL action and list-style-type exactly for a
\* style flag; endLIST pops one frame and pushes its closing tag and </li>;
\* another end pops one frame and pushes its closing tag; an end on an empty
\* stack does nothing.
C25_HandleListState ==
    pc = "handleListState" =>
        LET expected == ActionEffects([stack |-> input.stack, html |-> <<>>], input.change)
        IN  /\ result.lib = expected
            /\ (\A k \in DOMAIN input.change : StyleFree(input.change[k])) =>
                  result.main = expected

\* a styled RTL ordered list has been opened inside an RTL list and closed
\* again with its <li>
C25_Witness ==
    /\ pc = "handleListState"
    /\ input.stack = <<Frame("ol_rtl", 0)>>
    /\ input.change = <<StartAction("OL_RTL_UPPER_ROMAN", 1), EndListAction>>
    /\ result.lib.stack = <<Frame("ol_rtl", 0)>>
    /\ result.lib.html = <<Line("<ol dir=\"rtl\" style=\"list-style-type: upper-roman\">"),
                           OlClose, LiClose>>

(***************************************************************************)
(* A frame from its push to its pop                                        *)
(***************************************************************************)
\* the operations that pop a frame
Poppers == {"endLIST", "end", "closeAllLists"}

\* the lines that the popper pushes, by lib/lists.js
LibPop(popper, stack) ==
    IF popper = "endLIST" THEN libHandleListState(<<EndListAction>>, stack, <<>>).html
    ELSE IF popper = "end" THEN libHandleListState(<<EndAction("UL")>>, stack, <<>>).html
    ELSE libCloseAllLists(stack, <<>>).html

\* the lines that the popper pushes, by the main script
MainPop(popper, stack) ==
    IF popper = "endLIST" THEN handleListState(<<EndListAction>>, stack, <<>>).html
    ELSE IF popper = "end" THEN handleListState(<<EndAction("UL")>>, stack, <<>>).html
    ELSE closeAllLists(stack, <<>>).html

\* a start action applied to a stack, then the popper applied to the result
CallPushThenPop ==
    /\ pc = "pure"
    /\ \E parts \in TypeParts, stack \in HandleStacks, popper \in Poppers :
          LET start == <<StartAction(UpperName(parts), Len(stack))>>
              lib == libHandleListState(start, stack, <<>>)
              main == handleListState(start, stack, <<>>)
          IN  /\ input' = [parts |-> parts, stack |-> stack, popper |-> popper]
              /\ result' = [lib |-> [opened |-> lib.html, closed |-> LibPop(popper, lib.stack)],
                            main |-> IF parts[3] = ""
                                     THEN [opened |-> main.html,
                                           closed |-> MainPop(popper, main.stack)]
                                     ELSE [opened |-> <<>>, closed |-> <<>>]]
    /\ pc' = "pushThenPop"
    /\ PureFrame

\* the opening tags of the two element kinds, in every RTL and style variant
UlOpeningTags == { OpeningTagFor(parts) : parts \in {"UL"} \X {"", "_RTL"} \X StyleFlags }
OlOpeningTags == { OpeningTagFor(parts) : parts \in {"OL"} \X {"", "_RTL"} \X StyleFlags }

\* one opening tag was pushed and the first line of the pop closes its kind
SameKind(r) ==
    /\ Len(r.opened) = 1
    /\ Len(r.closed) >= 1
    /\ \/ r.opened[1] \in UlOpeningTags /\ r.closed[1] = UlClose
       \/ r.opened[1] \in OlOpeningTags /\ r.closed[1] = OlClose

\* C29: a frame pushed by a start action of any kind, RTL flag and style
\* flag is popped by endLIST, by a typed end and by closeAllLists with the
\* closing tag of the kind of its opening tag: </ul> for <ul>, </ol> for <ol>.
C29_CloseMatchesOpen ==
    pc = "pushThenPop" =>
        /\ SameKind(result.lib)
        /\ input.parts[3] = "" => SameKind(result.main)

\* a styled RTL unordered list on top of two frames has been closed by closeAllLists
C29_Witness ==
    /\ pc = "pushThenPop"
    /\ input.parts = <<"UL", "_RTL", "_SQUARE">>
    /\ Len(input.stack) = 2
    /\ input.popper = "closeAllLists"
    /\ result.lib.opened = <<Line("<ul dir=\"rtl\" style=\"list-style-type: square\">")>>
    /\ result.lib.closed = <<UlClose, OlClose, UlClose>>

NextPure ==
    \/ CallTextAlign
    \/ CallMergeTextRuns
    \/ CallPtToPx
    \/ CallIsNumberedList
    \/ CallInferNestingLevel
    \/ CallCloseAllLists
    \/ CallParagraphTag
    \/ CallTocLevel
    \/ CallDetectStyles
    \/ CallHandleListState
    \/ CallPushThenPop

SpecPure == InitPure /\ [][NextPure]_vars

====
